---- MODULE Spec2Model ----
(***************************************************************************)
(* Model of the data-quality scoring orchestrator of the MITRE data        *)
(* quality Kibana plugin: DataQualityTaskRunner (the three pass entry      *)
(* points and their exclusive-run flag) and the pass bodies of             *)
(* DataQualityScoringService (processAllAnalytics,                         *)
(* getAnalyticsNeedingRecalculation), run against an Elasticsearch-like    *)
(* store.  JavaScript is single threaded: the code between two awaits is   *)
(* one atomic step, and every await is a point where other calls, the      *)
(* clock and the store may act.                                            *)
(***************************************************************************)
EXTENDS Integers, Sequences, FiniteSets, TLC

\* ------------------------------------------------------------ bounds
NumCallers == 2      \* concurrent callers (HTTP requests / background triggers)
MaxCatalog == 3      \* analytics in the ECS catalog index
MaxRefs == 2         \* log-source references of the largest analytic
MaxFaults == 1       \* store operations that fail in one behaviour
MaxTicks == 1        \* clock advances in one behaviour
RandomGrid == 2      \* Math.random() takes the values k/RandomGrid, k < RandomGrid
NumScorers == 1      \* settings lookups in flight at once
MaxSaves == 1        \* settings saved in one behaviour
MaxInvalidations == 2  \* invalidateSettingsCache calls in one behaviour
MaxCacheTicks == 2   \* clock advances in one behaviour of the settings cache
NumMatrixCallers == 2  \* getMatrix calls in flight at once
MaxBuilds == 3       \* taxonomy builds in one behaviour
MaxClears == 2       \* clearCache calls in one behaviour
MaxSourceChanges == 1  \* replacements of the STIX file in one behaviour

\* ------------------------------------------------- program constants
DEFAULT_REFRESH_DELAY_MS == 604800000   \* 7 * 24 * 60 * 60 * 1000
ScrollSize == 100                       \* size of one page of the catalog scroll
SearchSize == 100                       \* size of the due-results search
JitterMinSeconds == 60
JitterMaxSeconds == 360
CACHE_TTL_MS == 60000
\* Scores are kept in hundredths: 5.0 is 500.
DEFAULT_RETENTION_SCORE == 500
DEFAULT_DEVICE_COMPLETENESS_SCORE == 200

Procs == 1 .. NumCallers
InternalClient == "asInternalUser"
UserClients == {"asCurrentUser"}
RandomUnits == 0 .. (RandomGrid - 1)

VARIABLES
  isRunning,       \* DataQualityTaskRunner.isRunning
  logsClient,      \* DataQualityScoringService.logsClient
  refreshDelayMs,  \* DataQualityScoringService.refreshDelayMs
  now,             \* Date.now(), in milliseconds
  ticks,           \* clock advances so far
  ecsExists,       \* the ECS catalog index exists
  catalog,         \* documents of the ECS catalog index, by analytic id
  resultsExists,   \* the results index exists
  results,         \* documents of the results index, by analytic id
  openScrolls,     \* server-side scroll contexts that are open
  faults,          \* store operations that have failed so far
  call,            \* per caller: position and locals of its call
  obs,             \* per caller: what its current (or last) call did
  settingsIndexExists,   \* the settings index exists
  settingsDocs,          \* per dimension: the scores of its settings document
  scoresCache,           \* retentionScoresCache / deviceCompletenessCache
  scoresCacheTimestamp,  \* retentionScoresCacheTimestamp / deviceCompletenessCacheTimestamp
  lookup,                \* per scorer: position and locals of its settings lookups
  hist,                  \* what has happened to the settings store and its caches
  scoreIn,               \* the arguments of one calculateScoresForLogSource call
  scoreOut,              \* the Scores it returned
  source,                \* the STIX file on disk
  cachedMatrix,          \* MitreMatrixParser.cachedMatrix
  mcall,                 \* per caller: position and locals of its getMatrix call
  mhist                  \* what has happened to the parser

\* The state of the pass orchestration, of the settings cache, of one scoring
\* call and of the taxonomy parser.
cacheVars == <<settingsIndexExists, settingsDocs, scoresCache, scoresCacheTimestamp,
               lookup, hist>>

scoreVars == <<scoreIn, scoreOut>>

matrixVars == <<source, cachedMatrix, mcall, mhist>>

passVars == <<isRunning, logsClient, ticks, ecsExists, catalog, resultsExists, results,
              openScrolls, faults, call, obs>>

vars == <<isRunning, logsClient, refreshDelayMs, now, ticks, ecsExists, catalog,
          resultsExists, results, openScrolls, faults, call, obs,
          cacheVars, scoreVars, matrixVars>>

\* ------------------------------------------------------------ values
NoDoc == [present |-> FALSE, ne |-> <<>>]
NoResult == [action |-> "-", count |-> 0]
VoidResult == [action |-> "void", count |-> 0]
NoneResult == [action |-> "none", count |-> 0]
InitResult == [action |-> "init", count |-> -1]
UpdateResult(n) == [action |-> "update", count |-> n]

IdleCall ==
  [pc |-> "idle", kind |-> "-", hits |-> <<>>, idx |-> 0, scrollId |-> FALSE,
   cursor |-> 0, due |-> {}, rest |-> {}, thrown |-> FALSE]

FreshObs ==
  [outcome |-> "-", result |-> NoResult, ops |-> {}, written |-> {},
   attempted |-> {}, failed |-> {}, dueAtScan |-> {}, scanned |-> FALSE,
   foundEmpty |-> FALSE, probedWith |-> {}, ranFull |-> FALSE,
   scrollOpened |-> FALSE, structural |-> FALSE, kind |-> "-", batch |-> {},
   existsSeen |-> "-", countSeen |-> -1, probeFailed |-> {}]

\* The analytic at position i of the catalog: with or without _source, and with
\* 0 .. MaxRefs log-source references.
AnalyticAt(i) ==
  CASE i % 4 = 1 -> [src |-> TRUE, refs |-> 1]
    [] i % 4 = 2 -> [src |-> FALSE, refs |-> 0]
    [] i % 4 = 3 -> [src |-> TRUE, refs |-> MaxRefs]
    [] OTHER -> [src |-> TRUE, refs |-> 0]

CatalogOf(n) == [i \in 1 .. n |-> AnalyticAt(i)]

Min(a, b) == IF a < b THEN a ELSE b

\* The least element of a non-empty set of analytic ids.
Least(S) == CHOOSE x \in S : \A y \in S : x <= y

\* ------------------------------------------------------- pure helpers
\* calculateNextExecution: now + refresh delay + random(60..360) seconds, where
\* r / RandomGrid is the value Math.random() returned.
calculateNextExecution(t, r) ==
  LET randomSeconds ==
        ((r * (JitterMaxSeconds - JitterMinSeconds + 1)) \div RandomGrid) + JitterMinSeconds
  IN t + refreshDelayMs + randomSeconds * 1000

\* The same with Math.random() = num / den.
NextExecution(t, num, den) ==
  LET randomSeconds ==
        ((num * (JitterMaxSeconds - JitterMinSeconds + 1)) \div den) + JitterMinSeconds
  IN t + refreshDelayMs + randomSeconds * 1000

\* processAnalytic: the scored document of an analytic with `refs` log-source
\* references; every reference gets its own next_execution.
processAnalytic(refs, rs) ==
  [present |-> TRUE, ne |-> [i \in 1 .. refs |-> calculateNextExecution(now, rs[i])]]

\* The nested range query of getAnalyticsNeedingRecalculation: some log-source
\* reference has next_execution <= t.
IsDue(doc, t) == doc.present /\ \E i \in 1 .. Len(doc.ne) : doc.ne[i] <= t

DueSet(t) == {id \in DOMAIN results : IsDue(results[id], t)}

CountResults == Cardinality({id \in DOMAIN results : results[id].present})

\* An analytic of the catalog that processAllAnalytics scores: it has a _source
\* and at least one log-source reference.
Scorable(id) == catalog[id].src /\ catalog[id].refs > 0

ScorableIds == {id \in DOMAIN catalog : Scorable(id)}

\* The next hit of the page after position i that is scored; Len(h) + 1 when the
\* rest of the page is skipped (hits without _source or without references are
\* skipped without an await).
NextWork(h, i) ==
  LET C == {j \in (i + 1) .. Len(h) : Scorable(h[j])}
  IN IF C = {} THEN Len(h) + 1 ELSE CHOOSE j \in C : \A k \in C : j <= k

\* One page of the catalog scroll, after `cursor` documents were returned.
Page(cursor) == [k \in 1 .. Min(ScrollSize, Len(catalog) - cursor) |-> cursor + k]

\* The hits of a search of size SearchSize whose query matches `due`: all of them
\* when they fit, else SearchSize of them.  Every match has the same score; the
\* model returns the matches in index order, lowest ids first.
SearchHits(due) == {id \in due : Cardinality({x \in due : x < id}) < SearchSize}

\* A store operation fails only while the fault budget lasts.
MayFail(ok) == ok \/ faults < MaxFaults

Fault(ok) == faults' = IF ok THEN faults ELSE faults + 1

\* ------------------------------------------- the other components at rest
\* The dimensions with a settings document, the platforms of the settings maps
\* and the scorers that look settings up.
Dims == {"retention", "device_completeness"}
Platforms == {"windows", "linux"}
NoPlatform == "-"
Scorers == 1 .. NumScorers

EmptyScores == [pf \in {} |-> 0]
NoSettingsDoc == [present |-> FALSE, scores |-> EmptyScores]
NoResponse == [ok |-> FALSE, exists |-> FALSE, scores |-> EmptyScores]

NoLookupSeen ==
  [done |-> FALSE, dim |-> "-", hit |-> FALSE, readStore |-> FALSE, map |-> EmptyScores,
   score |-> 0, fetchedBefore |-> FALSE, age |-> 0, invalidated |-> FALSE,
   cached |-> EmptyScores, settled |-> FALSE, stored |-> EmptyScores]

IdleLookup ==
  [pc |-> "idle", dim |-> "-", platform |-> NoPlatform, resp |-> NoResponse,
   startGen |-> 0, seen |-> NoLookupSeen]

FreshHist ==
  [gen |-> 0, saves |-> 0, ticks |-> 0,
   dirty |-> [d \in Dims |-> FALSE],
   fetchedAt |-> [d \in Dims |-> -1],
   invalidated |-> [d \in Dims |-> FALSE]]

\* The settings cache with nothing stored, nothing cached and no lookup.
CacheQuiet ==
  /\ settingsIndexExists = FALSE
  /\ settingsDocs = [d \in Dims |-> NoSettingsDoc]
  /\ scoresCache = [d \in Dims |-> EmptyScores]
  /\ scoresCacheTimestamp = [d \in Dims |-> 0]
  /\ lookup = [s \in Scorers |-> IdleLookup]
  /\ hist = FreshHist

\* A score is a JavaScript number in hundredths, or NaN.
Num(v) == [nan |-> FALSE, v |-> v]

\* A score is a JavaScript number in hundredths, or NaN.
NaN == [nan |-> TRUE, v |-> 0]

\* The last matching log record, as calculateTimelinessScore reads it: whether it
\* has event.ingested and @timestamp, whether both parse as dates, and
\* ingested - @timestamp in milliseconds.
NullDoc ==
  [some |-> FALSE, ingested |-> FALSE, timestamp |-> FALSE, valid |-> FALSE, deltaMs |-> 0]

NoScores ==
  [done |-> FALSE, next_execution |-> 0, quality_score |-> Num(0),
   data_field_completeness |-> Num(0), timeliness |-> Num(0), consistency |-> Num(0),
   device_completeness |-> Num(0), retention |-> Num(0), base_score |-> 0,
   lastDoc |-> NullDoc]

NoScoreIn ==
  [given |-> FALSE, status |-> "", confidence |-> "", exists |-> FALSE,
   platform |-> NoPlatform, at |-> 0, probeFailed |-> FALSE]

ScoreQuiet ==
  /\ scoreIn = NoScoreIn
  /\ scoreOut = NoScores

MatrixCallers == 1 .. NumMatrixCallers

\* A taxonomy carries the number of its build and the number of clearCache calls
\* that preceded the build.
NoMatrix ==
  [some |-> FALSE, build |-> 0, epoch |-> 0, tactics |-> <<>>, availablePlatforms |-> <<>>]

NoMatrixReturn ==
  [outcome |-> "-", matrix |-> NoMatrix, startClears |-> 0, parsed |-> FALSE,
   parsedKind |-> "-", parsedObjects |-> <<>>]

IdleMatrixCall ==
  [pc |-> "idle", matrix |-> NoMatrix, startClears |-> 0, parsedKind |-> "-",
   parsedObjects |-> <<>>, last |-> NoMatrixReturn]

FreshMatrixHist ==
  [builds |-> 0, buildsSinceClear |-> 0, returnedSinceClear |-> {}, clears |-> 0,
   changes |-> 0]

\* The parser with no STIX file, nothing cached and no call.
MatrixQuiet ==
  /\ source = [kind |-> "missing", objects |-> <<>>]
  /\ cachedMatrix = NoMatrix
  /\ mcall = [m \in MatrixCallers |-> IdleMatrixCall]
  /\ mhist = FreshMatrixHist

\* No pass, no catalog and no results.
PassQuiet ==
  /\ isRunning = FALSE
  /\ logsClient = InternalClient
  /\ ticks = 0
  /\ ecsExists = FALSE
  /\ catalog = CatalogOf(0)
  /\ resultsExists = FALSE
  /\ results = [id \in {} |-> NoDoc]
  /\ openScrolls = 0
  /\ faults = 0
  /\ call = [p \in Procs |-> IdleCall]
  /\ obs = [p \in Procs |-> FreshObs]

\* ------------------------------------------------------------- Init
\* The catalog index is absent, or holds 0 .. MaxCatalog analytics; the results
\* index is absent or empty; no pass has run.
Init ==
  /\ isRunning = FALSE
  /\ logsClient = InternalClient
  /\ refreshDelayMs = DEFAULT_REFRESH_DELAY_MS
  /\ now = 0
  /\ ticks = 0
  /\ \E e \in BOOLEAN, n \in 0 .. MaxCatalog :
       /\ (~e => n = 0)
       /\ ecsExists = e
       /\ catalog = CatalogOf(n)
  /\ resultsExists \in BOOLEAN
  /\ results = [id \in DOMAIN catalog |-> NoDoc]
  /\ openScrolls = 0
  /\ faults = 0
  /\ call = [p \in Procs |-> IdleCall]
  /\ obs = [p \in Procs |-> FreshObs]
  /\ CacheQuiet /\ ScoreQuiet /\ MatrixQuiet

\* The clock advances: to the earliest next_execution of a document written at
\* time 0, or by the difference of two jitters.
TickSteps == {refreshDelayMs + JitterMinSeconds * 1000, 150000}

Tick(d) ==
  /\ ticks < MaxTicks
  /\ ticks' = ticks + 1
  /\ now' = now + d
  /\ UNCHANGED <<isRunning, logsClient, refreshDelayMs, ecsExists, catalog,
                 resultsExists, results, openScrolls, faults, call, obs,
                 cacheVars, scoreVars, matrixVars>>

\* ------------------------------------------------- the exclusive-run flag
\* A pass entry that does not look at the flag.
AlreadyRunningUnchecked == FALSE

\* `if (this.isRunning)` at the entry of every pass.
AlreadyRunning == isRunning

\* An early return placed after setLogsClient instead of before it.
RejectAfterSetLogsClient(p, kind, client, res) ==
  /\ obs' = [obs EXCEPT ![p] = [FreshObs EXCEPT !.outcome = "rejected", !.result = res,
                                                !.kind = kind]]
  /\ logsClient' = client
  /\ UNCHANGED <<isRunning, refreshDelayMs, now, ticks, ecsExists, catalog,
                 resultsExists, results, openScrolls, faults, call,
                 cacheVars, scoreVars, matrixVars>>

\* The early return of a pass request that finds a pass in flight: nothing but
\* the value returned.
Reject(p, kind, client, res) ==
  /\ obs' = [obs EXCEPT ![p] = [FreshObs EXCEPT !.outcome = "rejected", !.result = res,
                                                !.kind = kind]]
  /\ UNCHANGED <<isRunning, logsClient, refreshDelayMs, now, ticks, ecsExists, catalog,
                 resultsExists, results, openScrolls, faults, call,
                 cacheVars, scoreVars, matrixVars>>

\* `this.isRunning = true` and the synchronous code up to the first await.
Admit(p, kind, client, firstPc) ==
  /\ isRunning' = TRUE
  /\ logsClient' = client
  /\ call' = [call EXCEPT ![p] = [IdleCall EXCEPT !.pc = firstPc, !.kind = kind]]
  /\ obs' = [obs EXCEPT ![p] = [FreshObs EXCEPT !.outcome = "running", !.kind = kind,
                                                !.ranFull = (firstPc = "pa_exists")]]
  /\ UNCHANGED <<refreshDelayMs, now, ticks, ecsExists, catalog, resultsExists, results,
                 openScrolls, faults,
                 cacheVars, scoreVars, matrixVars>>

runFullCalculation(p) ==
  /\ call[p].pc = "idle"
  /\ IF AlreadyRunning
       THEN Reject(p, "full", logsClient, VoidResult)
       ELSE Admit(p, "full", logsClient, "pa_exists")

runFullCalculationWithClient(p, client) ==
  /\ call[p].pc = "idle"
  /\ IF AlreadyRunning
       THEN Reject(p, "fullWithClient", client, VoidResult)
       ELSE Admit(p, "fullWithClient", client, "pa_exists")

runSmartScoringWithClient(p, client) ==
  /\ call[p].pc = "idle"
  /\ IF AlreadyRunning
       THEN Reject(p, "smart", client, NoneResult)
       ELSE Admit(p, "smart", client, "sm_exists")

\* ------------------------------------------------ processAllAnalytics
InProcessAll == {"pa_exists", "pa_search", "pa_item", "pa_scroll", "pa_clear", "pa_refresh"}

\* The catch block of processAllAnalytics logs and rethrows.
PaThrow(c) == [c EXCEPT !.pc = "pa_ret", !.thrown = TRUE]

PaReturn(c) == [c EXCEPT !.pc = "pa_ret", !.thrown = FALSE]

\* A processAllAnalytics whose scoring loop has no try/catch of its own.
ProcessAllItemErrorEscapes == FALSE

\* The per-analytic try/catch of processAllAnalytics logs the error and goes on.
ProcessAllCatchesItemError == TRUE

\* The per-analytic try/catch of the update loop logs the error and goes on.
SmartCatchesItemError == TRUE

\* `while (hits.length > 0)` with a page h just received: leave the loop on an
\* empty page, else score the first hit that is not skipped, else (all skipped)
\* ask for the next page.
AfterPage(c, h) ==
  LET d == [c EXCEPT !.hits = h, !.cursor = c.cursor + Len(h), !.scrollId = TRUE]
      j == NextWork(h, 0)
  IN IF Len(h) = 0 THEN [d EXCEPT !.pc = "pa_clear", !.idx = 0]
     ELSE IF j <= Len(h) THEN [d EXCEPT !.pc = "pa_item", !.idx = j]
     ELSE [d EXCEPT !.pc = "pa_scroll", !.idx = 0]

\* After the hit at c.idx: the next scored hit of the page, else the next page
\* (`if (scrollId)`), else `break` and on to the refresh.
AfterItem(c) ==
  LET j == NextWork(c.hits, c.idx)
  IN IF j <= Len(c.hits) THEN [c EXCEPT !.idx = j]
     ELSE IF c.scrollId THEN [c EXCEPT !.pc = "pa_scroll", !.idx = 0]
     ELSE [c EXCEPT !.pc = "pa_refresh", !.idx = 0]

\* A queryFieldExists whose search error leaves it.
ProbeErrorEscapes == FALSE

\* queryFieldExists wraps its search in try/catch and answers {exists: false,
\* lastDoc: null} on an error.
ProbeErrorIsCaught == TRUE

\* An analytic is scored and indexed: nothing failed, or only a probe did
\* ("probeFail": the search of queryFieldExists rejects).
ItemSucceeds(outcome) == outcome = "ok" \/ (outcome = "probeFail" /\ ProbeErrorIsCaught)

\* What one scored analytic leaves in the caller's observations: "scoreFail" is
\* an error thrown by processAnalytic before it probes, "indexFail" an error of
\* the index request that follows the probes.
ItemObs(o, id, outcome) ==
  [o EXCEPT !.attempted = @ \cup {id},
            !.failed = IF ItemSucceeds(outcome) THEN @ ELSE @ \cup {id},
            !.written = IF ItemSucceeds(outcome) THEN @ \cup {id} ELSE @,
            !.probeFailed = IF outcome = "probeFail" THEN @ \cup {id} ELSE @,
            !.probedWith = IF outcome = "scoreFail" THEN @ ELSE @ \cup {logsClient},
            !.ops = IF outcome = "scoreFail" THEN @
                    ELSE @ \cup {"logs.search", "results.index"}]

ItemOutcomes == {"ok", "scoreFail", "indexFail"}

\* The same with a failing probe.
ProbeOutcomes == ItemOutcomes \cup {"probeFail"}

\* await internalClient.indices.exists({index: ECS_INDEX_NAME})
ProcessAll_IndexExists(p, ok) ==
  /\ call[p].pc = "pa_exists"
  /\ MayFail(ok)
  /\ Fault(ok)
  /\ call' = [call EXCEPT ![p] =
                IF ~ok THEN PaThrow(@)
                ELSE IF ~ecsExists THEN PaReturn(@)
                ELSE [@ EXCEPT !.pc = "pa_search"]]
  /\ obs' = [obs EXCEPT ![p].ops = @ \cup {"ecs.exists"}, ![p].structural = @ \/ ~ok]
  /\ UNCHANGED <<isRunning, logsClient, refreshDelayMs, now, ticks, ecsExists, catalog,
                 resultsExists, results, openScrolls,
                 cacheVars, scoreVars, matrixVars>>

\* await internalClient.search({index: ECS_INDEX_NAME, size: 100, scroll: '1m'})
ProcessAll_Search(p, ok) ==
  /\ call[p].pc = "pa_search"
  /\ MayFail(ok)
  /\ Fault(ok)
  /\ call' = [call EXCEPT ![p] = IF ok THEN AfterPage(@, Page(0)) ELSE PaThrow(@)]
  /\ openScrolls' = IF ok THEN openScrolls + 1 ELSE openScrolls
  /\ obs' = [obs EXCEPT ![p].ops = @ \cup {"ecs.search"}, ![p].structural = @ \/ ~ok,
                        ![p].scrollOpened = @ \/ ok]
  /\ UNCHANGED <<isRunning, logsClient, refreshDelayMs, now, ticks, ecsExists, catalog,
                 resultsExists, results,
                 cacheVars, scoreVars, matrixVars>>

\* One analytic of the page: processAnalytic, then internalClient.index into the
\* results index, inside the per-analytic try/catch.
ProcessAll_Item(p, rs, outcome) ==
  /\ call[p].pc = "pa_item"
  /\ MayFail(outcome = "ok")
  /\ Fault(outcome = "ok")
  /\ LET id == call[p].hits[call[p].idx]
     IN /\ results' = IF ItemSucceeds(outcome)
                        THEN [results EXCEPT ![id] = processAnalytic(catalog[id].refs, rs)]
                        ELSE results
        /\ resultsExists' = (resultsExists \/ ItemSucceeds(outcome))
        /\ obs' = [obs EXCEPT ![p] = ItemObs(@, id, outcome)]
        /\ call' = [call EXCEPT ![p] =
                      IF ~ItemSucceeds(outcome) /\ ~ProcessAllCatchesItemError
                        THEN PaThrow(@) ELSE AfterItem(@)]
  /\ UNCHANGED <<isRunning, logsClient, refreshDelayMs, now, ticks, ecsExists, catalog,
                 openScrolls,
                 cacheVars, scoreVars, matrixVars>>

\* await internalClient.scroll({scroll_id: scrollId, scroll: '1m'})
ProcessAll_Scroll(p, ok) ==
  /\ call[p].pc = "pa_scroll"
  /\ MayFail(ok)
  /\ Fault(ok)
  /\ call' = [call EXCEPT ![p] = IF ok THEN AfterPage(@, Page(@.cursor)) ELSE PaThrow(@)]
  /\ obs' = [obs EXCEPT ![p].ops = @ \cup {"ecs.scroll"}, ![p].structural = @ \/ ~ok]
  /\ UNCHANGED <<isRunning, logsClient, refreshDelayMs, now, ticks, ecsExists, catalog,
                 resultsExists, results, openScrolls,
                 cacheVars, scoreVars, matrixVars>>

\* await internalClient.clearScroll({scroll_id: scrollId})
ProcessAll_ClearScroll(p, ok) ==
  /\ call[p].pc = "pa_clear"
  /\ MayFail(ok)
  /\ Fault(ok)
  /\ call' = [call EXCEPT ![p] = IF ok THEN [@ EXCEPT !.pc = "pa_refresh"] ELSE PaThrow(@)]
  /\ openScrolls' = IF ok THEN openScrolls - 1 ELSE openScrolls
  /\ obs' = [obs EXCEPT ![p].ops = @ \cup {"clearScroll"}, ![p].structural = @ \/ ~ok]
  /\ UNCHANGED <<isRunning, logsClient, refreshDelayMs, now, ticks, ecsExists, catalog,
                 resultsExists, results,
                 cacheVars, scoreVars, matrixVars>>

\* await internalClient.indices.refresh({index: RESULTS_INDEX_NAME})
ProcessAll_Refresh(p, ok) ==
  /\ call[p].pc = "pa_refresh"
  /\ MayFail(ok)
  /\ Fault(ok)
  /\ call' = [call EXCEPT ![p] = IF ok THEN PaReturn(@) ELSE PaThrow(@)]
  /\ obs' = [obs EXCEPT ![p].ops = @ \cup {"results.refresh"}, ![p].structural = @ \/ ~ok]
  /\ UNCHANGED <<isRunning, logsClient, refreshDelayMs, now, ticks, ecsExists, catalog,
                 resultsExists, results, openScrolls,
                 cacheVars, scoreVars, matrixVars>>

\* ------------------------------------------- the ends of the three passes
\* finally of runFullCalculation.
FinallyFull ==
  /\ isRunning' = FALSE
  /\ UNCHANGED logsClient

\* A cleanup that restores the probe client but leaves the flag set.
FinallyKeepsFlag ==
  /\ logsClient' = InternalClient
  /\ UNCHANGED isRunning

\* A cleanup that clears the flag but leaves the caller's probe client in place.
FinallyKeepsClient ==
  /\ isRunning' = FALSE
  /\ UNCHANGED logsClient

\* finally of runFullCalculationWithClient and of runSmartScoringWithClient:
\* setLogsClient(this.esClient), then the flag.
FinallyWithClient ==
  /\ logsClient' = InternalClient
  /\ isRunning' = FALSE

\* catch of runFullCalculation and runFullCalculationWithClient: log, no rethrow.
FullCatch(thrown) == "returned"

\* catch of runSmartScoringWithClient: log and rethrow.
SmartCatch(thrown) == IF thrown THEN "threw" ELSE "returned"

\* What stays observable of a call once it is over: its kind, outcome and result,
\* the store operations it issued and what it found in the results index; the
\* per-analytic detail goes with the call's locals.
Summary(o) ==
  [FreshObs EXCEPT !.kind = o.kind, !.outcome = o.outcome, !.result = o.result,
                   !.ops = o.ops, !.structural = o.structural,
                   !.existsSeen = o.existsSeen, !.countSeen = o.countSeen,
                   !.foundEmpty = o.foundEmpty, !.ranFull = o.ranFull,
                   !.scanned = o.scanned, !.dueAtScan = o.dueAtScan]

\* The call of p is over: its locals are gone, its outcome is observed.
Over(p, o, outcome, res) ==
  /\ call' = [call EXCEPT ![p] = IdleCall]
  /\ obs' = [obs EXCEPT ![p] = Summary([o EXCEPT !.outcome = outcome, !.result = res])]

\* runFullCalculation resumes after `await processAllAnalytics()`.
FinishFull(p) ==
  /\ call[p].pc = "pa_ret"
  /\ call[p].kind = "full"
  /\ Over(p, obs[p], FullCatch(call[p].thrown), VoidResult)
  /\ FinallyFull
  /\ UNCHANGED <<refreshDelayMs, now, ticks, ecsExists, catalog, resultsExists, results,
                 openScrolls, faults,
                 cacheVars, scoreVars, matrixVars>>

\* runFullCalculationWithClient resumes after `await processAllAnalytics()`.
FinishFullWithClient(p) ==
  /\ call[p].pc = "pa_ret"
  /\ call[p].kind = "fullWithClient"
  /\ Over(p, obs[p], FullCatch(call[p].thrown), VoidResult)
  /\ FinallyWithClient
  /\ UNCHANGED <<refreshDelayMs, now, ticks, ecsExists, catalog, resultsExists, results,
                 openScrolls, faults,
                 cacheVars, scoreVars, matrixVars>>

\* runSmartScoringWithClient resumes after `await processAllAnalytics()`:
\* return {action: 'init', count: -1}, or the rethrow.
FinishSmartInit(p) ==
  /\ call[p].pc = "pa_ret"
  /\ call[p].kind = "smart"
  /\ Over(p, obs[p], SmartCatch(call[p].thrown),
          IF call[p].thrown THEN NoResult ELSE InitResult)
  /\ FinallyWithClient
  /\ UNCHANGED <<refreshDelayMs, now, ticks, ecsExists, catalog, resultsExists, results,
                 openScrolls, faults,
                 cacheVars, scoreVars, matrixVars>>

\* ------------------------------------------- runSmartScoringWithClient
\* A count test that never takes the init branch.
StoreIsNegative(n) == n < 0

\* `countResult.count === 0`
StoreIsEmpty(n) == n = 0

\* An update loop entered without the `length === 0` return.
NothingDueUnchecked(due) == FALSE

\* `dueAnalytics.length === 0`
NothingDue(due) == Cardinality(due) = 0

\* The pass goes on: its locals and observations change, the flag and the probe
\* client stay.
GoOn(p, c, o) ==
  /\ call' = [call EXCEPT ![p] = c]
  /\ obs' = [obs EXCEPT ![p] = o]
  /\ UNCHANGED <<isRunning, logsClient>>

\* await esClient.indices.exists({index: results})
Smart_IndexExists(p, ok) ==
  /\ call[p].pc = "sm_exists"
  /\ MayFail(ok)
  /\ Fault(ok)
  /\ LET o == [obs[p] EXCEPT !.ops = @ \cup {"results.exists"}, !.structural = @ \/ ~ok,
                             !.existsSeen = IF ~ok THEN "-"
                                            ELSE IF resultsExists THEN "yes" ELSE "no"]
     IN IF ~ok
          THEN Over(p, o, SmartCatch(TRUE), NoResult) /\ FinallyWithClient
        ELSE IF ~resultsExists
          THEN GoOn(p, [call[p] EXCEPT !.pc = "pa_exists"],
                    [o EXCEPT !.foundEmpty = TRUE, !.ranFull = TRUE])
        ELSE GoOn(p, [call[p] EXCEPT !.pc = "sm_count"], o)
  /\ UNCHANGED <<refreshDelayMs, now, ticks, ecsExists, catalog, resultsExists, results,
                 openScrolls,
                 cacheVars, scoreVars, matrixVars>>

\* await esClient.count({index: results})
Smart_Count(p, ok) ==
  /\ call[p].pc = "sm_count"
  /\ MayFail(ok)
  /\ Fault(ok)
  /\ LET o == [obs[p] EXCEPT !.ops = @ \cup {"results.count"}, !.structural = @ \/ ~ok,
                             !.countSeen = IF ok THEN CountResults ELSE -1]
     IN IF ~ok
          THEN Over(p, o, SmartCatch(TRUE), NoResult) /\ FinallyWithClient
        ELSE IF StoreIsEmpty(CountResults)
          THEN GoOn(p, [call[p] EXCEPT !.pc = "pa_exists"],
                    [o EXCEPT !.foundEmpty = TRUE, !.ranFull = TRUE])
        ELSE GoOn(p, [call[p] EXCEPT !.pc = "sm_scan"], o)
  /\ UNCHANGED <<refreshDelayMs, now, ticks, ecsExists, catalog, resultsExists, results,
                 openScrolls,
                 cacheVars, scoreVars, matrixVars>>

\* getAnalyticsNeedingRecalculation: a search of size SearchSize for the results with an
\* elapsed next_execution; a failing search is logged and gives [].  Then the
\* `dueAnalytics.length === 0` return.
Smart_Scan(p, ok) ==
  /\ call[p].pc = "sm_scan"
  /\ MayFail(ok)
  /\ Fault(ok)
  /\ LET hits == IF ok THEN SearchHits(DueSet(now)) ELSE {}
         o == [obs[p] EXCEPT !.ops = @ \cup {"results.search"}, !.structural = @ \/ ~ok,
                             !.scanned = TRUE, !.dueAtScan = DueSet(now),
                             !.batch = hits]
     IN IF NothingDue(hits)
          THEN Over(p, o, SmartCatch(FALSE), NoneResult) /\ FinallyWithClient
        ELSE IF hits = {}
          THEN GoOn(p, [call[p] EXCEPT !.pc = "sm_refresh", !.due = hits], o)
        ELSE GoOn(p, [call[p] EXCEPT !.pc = "sm_item", !.due = hits, !.rest = hits], o)
  /\ UNCHANGED <<refreshDelayMs, now, ticks, ecsExists, catalog, resultsExists, results,
                 openScrolls,
                 cacheVars, scoreVars, matrixVars>>

\* One due analytic, in the order of the hits (`rest` holds those still to come):
\* processAnalytic on the stored document's references, then esClient.index,
\* inside the per-analytic try/catch.
Smart_Item(p, rs, outcome) ==
  /\ call[p].pc = "sm_item"
  /\ MayFail(outcome = "ok")
  /\ Fault(outcome = "ok")
  /\ LET id == Least(call[p].rest)
         o == ItemObs(obs[p], id, outcome)
     IN /\ results' = IF ItemSucceeds(outcome)
                        THEN [results EXCEPT ![id] = processAnalytic(Len(results[id].ne), rs)]
                        ELSE results
        /\ IF ~ItemSucceeds(outcome) /\ ~SmartCatchesItemError
             THEN Over(p, o, SmartCatch(TRUE), NoResult) /\ FinallyWithClient
           ELSE IF call[p].rest # {id}
             THEN GoOn(p, [call[p] EXCEPT !.rest = @ \ {id}], o)
           ELSE GoOn(p, [call[p] EXCEPT !.pc = "sm_refresh", !.rest = {}], o)
  /\ UNCHANGED <<refreshDelayMs, now, ticks, ecsExists, catalog, resultsExists, openScrolls,
                 cacheVars, scoreVars, matrixVars>>

\* await esClient.indices.refresh({index: results}), then
\* return {action: 'update', count: dueAnalytics.length}.
Smart_Refresh(p, ok) ==
  /\ call[p].pc = "sm_refresh"
  /\ MayFail(ok)
  /\ Fault(ok)
  /\ LET o == [obs[p] EXCEPT !.ops = @ \cup {"results.refresh"}, !.structural = @ \/ ~ok]
     IN Over(p, o, SmartCatch(~ok),
             IF ok THEN UpdateResult(Cardinality(call[p].due)) ELSE NoResult)
  /\ FinallyWithClient
  /\ UNCHANGED <<refreshDelayMs, now, ticks, ecsExists, catalog, resultsExists, results,
                 openScrolls,
                 cacheVars, scoreVars, matrixVars>>

\* ------------------------------------------------------------- Next
RandomDraws == [1 .. MaxRefs -> RandomUnits]

Next ==
  \/ \E d \in TickSteps : Tick(d)
  \/ \E p \in Procs : runFullCalculation(p)
  \/ \E p \in Procs, c \in UserClients : runFullCalculationWithClient(p, c)
  \/ \E p \in Procs, c \in UserClients : runSmartScoringWithClient(p, c)
  \/ \E p \in Procs, ok \in BOOLEAN : ProcessAll_IndexExists(p, ok)
  \/ \E p \in Procs, ok \in BOOLEAN : ProcessAll_Search(p, ok)
  \/ \E p \in Procs, rs \in RandomDraws, out \in ItemOutcomes : ProcessAll_Item(p, rs, out)
  \/ \E p \in Procs, ok \in BOOLEAN : ProcessAll_Scroll(p, ok)
  \/ \E p \in Procs, ok \in BOOLEAN : ProcessAll_ClearScroll(p, ok)
  \/ \E p \in Procs, ok \in BOOLEAN : ProcessAll_Refresh(p, ok)
  \/ \E p \in Procs : FinishFull(p)
  \/ \E p \in Procs : FinishFullWithClient(p)
  \/ \E p \in Procs : FinishSmartInit(p)
  \/ \E p \in Procs, ok \in BOOLEAN : Smart_IndexExists(p, ok)
  \/ \E p \in Procs, ok \in BOOLEAN : Smart_Count(p, ok)
  \/ \E p \in Procs, ok \in BOOLEAN : Smart_Scan(p, ok)
  \/ \E p \in Procs, rs \in RandomDraws, out \in ItemOutcomes : Smart_Item(p, rs, out)
  \/ \E p \in Procs, ok \in BOOLEAN : Smart_Refresh(p, ok)

Spec == Init /\ [][Next]_vars

\* A catalog and a results index larger than one page: SearchSize + 1 analytics
\* of one log-source reference each, one caller, no failing store operation and
\* Math.random() = 0 throughout.
BigCatalog == [i \in 1 .. (SearchSize + 1) |-> [src |-> TRUE, refs |-> 1]]

ZeroDraws == [i \in 1 .. MaxRefs |-> 0]

InitBig ==
  /\ isRunning = FALSE
  /\ logsClient = InternalClient
  /\ refreshDelayMs = DEFAULT_REFRESH_DELAY_MS
  /\ now = 0
  /\ ticks = 0
  /\ ecsExists = TRUE
  /\ catalog = BigCatalog
  /\ resultsExists = FALSE
  /\ results = [id \in DOMAIN catalog |-> NoDoc]
  /\ openScrolls = 0
  /\ faults = 0
  /\ call = [p \in Procs |-> IdleCall]
  /\ obs = [p \in Procs |-> FreshObs]
  /\ CacheQuiet /\ ScoreQuiet /\ MatrixQuiet

NextBig ==
  \/ Tick(refreshDelayMs + JitterMinSeconds * 1000)
  \/ runSmartScoringWithClient(1, "asCurrentUser")
  \/ ProcessAll_IndexExists(1, TRUE)
  \/ ProcessAll_Search(1, TRUE)
  \/ ProcessAll_Item(1, ZeroDraws, "ok")
  \/ ProcessAll_Scroll(1, TRUE)
  \/ ProcessAll_ClearScroll(1, TRUE)
  \/ ProcessAll_Refresh(1, TRUE)
  \/ FinishSmartInit(1)
  \/ Smart_IndexExists(1, TRUE)
  \/ Smart_Count(1, TRUE)
  \/ Smart_Scan(1, TRUE)
  \/ Smart_Item(1, ZeroDraws, "ok")
  \/ Smart_Refresh(1, TRUE)

SpecBig == InitBig /\ [][NextBig]_vars

\* ======================================================= settings cache
\* The settings index holds one document per dimension, a map from platform to
\* score.  A lookup (getRetentionScoreForPlatform /
\* getDeviceCompletenessScoreForPlatform) goes through the time-boxed cache of its
\* dimension.  A store request is answered by the store at one moment (Served)
\* and its await resumes at a later one: other handlers run in between.
StartTime == 1000000          \* Date.now() when the service is constructed
SavedScores == {400}          \* a score the save routes accept (0 .. 500)

SettingsDoc(m) == [present |-> TRUE, scores |-> m]

DefaultScore(d) ==
  IF d = "retention" THEN DEFAULT_RETENTION_SCORE ELSE DEFAULT_DEVICE_COMPLETENESS_SCORE

\* Math.round(n / d) for d > 0: the nearest integer, halves upwards.
MathRound(n, d) == (2 * n + d) \div (2 * d)

RECURSIVE SumOver(_, _)
\* The sum of the scores of the platforms S of a settings map.
SumOver(m, S) ==
  IF S = {} THEN 0
  ELSE LET x == CHOOSE y \in S : TRUE IN m[x] + SumOver(m, S \ {x})

\* get...ScoreForPlatform once the settings are there: the platform's score or the
\* default; without a platform the mean of the configured scores rounded to one
\* decimal, or the default when none is configured.
ScoreForPlatform(settings, platform, default) ==
  IF platform # NoPlatform
    THEN IF platform \in DOMAIN settings THEN settings[platform] ELSE default
  ELSE IF DOMAIN settings = {} THEN default
  ELSE 10 * MathRound(SumOver(settings, DOMAIN settings) * 10,
                      Cardinality(DOMAIN settings) * 100)

\* What the settings document of dimension d holds now, as a lookup reads it.
StoredScores(d) ==
  IF settingsIndexExists /\ settingsDocs[d].present THEN settingsDocs[d].scores
  ELSE EmptyScores

\* A cache test that still trusts the cache at exactly the TTL.
CacheIsFreshInclusive(t, ts) == t - ts <= CACHE_TTL_MS

\* `Date.now() - this....CacheTimestamp < this.CACHE_TTL_MS`
CacheIsFresh(t, ts) == t - ts < CACHE_TTL_MS

\* The lookup of s is over and returns `m`; `read` tells whether it went to the
\* store.  `settled`: no cache invalidation since the lookup started and no save
\* since the last invalidation, which has happened.
LookupDone(l, m, read) ==
  [IdleLookup EXCEPT
     !.seen = [l.seen EXCEPT !.done = TRUE, !.hit = ~read, !.readStore = read, !.map = m,
                             !.score = ScoreForPlatform(m, l.platform, DefaultScore(l.dim)),
                             !.settled = (hist.gen = l.startGen /\ l.startGen > 0
                                            /\ ~hist.dirty[l.dim]),
                             !.stored = StoredScores(l.dim)]]

\* A fetch of dimension d completes: the cache and its timestamp are set.
CacheFill(d, m) ==
  /\ scoresCache' = [scoresCache EXCEPT ![d] = m]
  /\ scoresCacheTimestamp' = [scoresCacheTimestamp EXCEPT ![d] = now]
  /\ hist' = [hist EXCEPT !.fetchedAt[d] = now, !.invalidated[d] = FALSE]

\* get<Dimension>ScoreForPlatform(platform) up to the first await of
\* fetch<Dimension>Settings: the cache test, then either the cached map or the
\* indices.exists request.
getScoreForPlatform(s, d, platform) ==
  /\ lookup[s].pc = "idle"
  /\ LET l == [IdleLookup EXCEPT
                 !.dim = d, !.platform = platform, !.startGen = hist.gen,
                 !.seen = [NoLookupSeen EXCEPT
                             !.dim = d,
                             !.fetchedBefore = (hist.fetchedAt[d] >= 0),
                             !.age = IF hist.fetchedAt[d] >= 0 THEN now - hist.fetchedAt[d]
                                     ELSE 0,
                             !.invalidated = hist.invalidated[d],
                             !.cached = scoresCache[d]]]
     IN lookup' = [lookup EXCEPT ![s] =
                     IF CacheIsFresh(now, scoresCacheTimestamp[d])
                       THEN LookupDone(l, scoresCache[d], FALSE)
                       ELSE [l EXCEPT !.pc = "exists_sent", !.seen.readStore = TRUE]]
  /\ UNCHANGED <<settingsIndexExists, settingsDocs, scoresCache, scoresCacheTimestamp, hist>>
  /\ UNCHANGED <<passVars, refreshDelayMs, now, scoreVars, matrixVars>>

\* The store answers indices.exists({index: SETTINGS_INDEX_NAME}).
Settings_ExistsServed(s) ==
  /\ lookup[s].pc = "exists_sent"
  /\ lookup' = [lookup EXCEPT ![s].pc = "exists_back",
                              ![s].resp = [NoResponse EXCEPT !.ok = TRUE,
                                                             !.exists = settingsIndexExists]]
  /\ UNCHANGED <<settingsIndexExists, settingsDocs, scoresCache, scoresCacheTimestamp, hist>>
  /\ UNCHANGED <<passVars, refreshDelayMs, now, scoreVars, matrixVars>>

\* fetch<Dimension>Settings resumes after indices.exists: without the index the
\* cache is set to {} , else the get request goes out.
fetchSettings_AfterExists(s) ==
  /\ lookup[s].pc = "exists_back"
  /\ IF ~lookup[s].resp.exists
       THEN /\ CacheFill(lookup[s].dim, EmptyScores)
            /\ lookup' = [lookup EXCEPT ![s] = LookupDone(@, EmptyScores, TRUE)]
       ELSE /\ lookup' = [lookup EXCEPT ![s].pc = "get_sent", ![s].resp = NoResponse]
            /\ UNCHANGED <<scoresCache, scoresCacheTimestamp, hist>>
  /\ UNCHANGED <<settingsIndexExists, settingsDocs>>
  /\ UNCHANGED <<passVars, refreshDelayMs, now, scoreVars, matrixVars>>

\* The store answers get({index: SETTINGS_INDEX_NAME, id: <dimension>_scores}):
\* the document's scores, or an error when there is no such document.
Settings_GetServed(s) ==
  /\ lookup[s].pc = "get_sent"
  /\ LET d == lookup[s].dim
         found == settingsIndexExists /\ settingsDocs[d].present
     IN lookup' = [lookup EXCEPT ![s].pc = "get_back",
                                 ![s].resp = [ok |-> found, exists |-> TRUE,
                                              scores |-> StoredScores(d)]]
  /\ UNCHANGED <<settingsIndexExists, settingsDocs, scoresCache, scoresCacheTimestamp, hist>>
  /\ UNCHANGED <<passVars, refreshDelayMs, now, scoreVars, matrixVars>>

\* fetch<Dimension>Settings resumes after get: the scores read (or {} in the
\* catch block) go into the cache and are returned.
fetchSettings_AfterGet(s) ==
  /\ lookup[s].pc = "get_back"
  /\ LET m == IF lookup[s].resp.ok THEN lookup[s].resp.scores ELSE EmptyScores
     IN /\ CacheFill(lookup[s].dim, m)
        /\ lookup' = [lookup EXCEPT ![s] = LookupDone(@, m, TRUE)]
  /\ UNCHANGED <<settingsIndexExists, settingsDocs>>
  /\ UNCHANGED <<passVars, refreshDelayMs, now, scoreVars, matrixVars>>

\* invalidateSettingsCache(): both timestamps back to 0.
invalidateSettingsCache ==
  /\ hist.gen < MaxInvalidations
  /\ scoresCacheTimestamp' = [d \in Dims |-> 0]
  /\ hist' = [hist EXCEPT !.gen = @ + 1,
                          !.dirty = [d \in Dims |-> FALSE],
                          !.invalidated = [d \in Dims |-> TRUE]]
  /\ UNCHANGED <<settingsIndexExists, settingsDocs, scoresCache, lookup>>
  /\ UNCHANGED <<passVars, refreshDelayMs, now, scoreVars, matrixVars>>

\* The settings routes save one platform's score (0 .. 5 by their schema),
\* creating the index and the document when they are missing.
SaveSetting(d, platform, score) ==
  /\ hist.saves < MaxSaves
  /\ settingsIndexExists' = TRUE
  /\ settingsDocs' =
       [settingsDocs EXCEPT ![d] =
          SettingsDoc([pf \in DOMAIN StoredScores(d) \cup {platform} |->
                         IF pf = platform THEN score ELSE StoredScores(d)[pf]])]
  /\ hist' = [hist EXCEPT !.saves = @ + 1, !.dirty[d] = TRUE]
  /\ UNCHANGED <<scoresCache, scoresCacheTimestamp, lookup>>
  /\ UNCHANGED <<passVars, refreshDelayMs, now, scoreVars, matrixVars>>

\* The clock advances by dt milliseconds.
CacheTickSteps == {1, CACHE_TTL_MS - 1}

CacheTick(dt) ==
  /\ hist.ticks < MaxCacheTicks
  /\ now' = now + dt
  /\ hist' = [hist EXCEPT !.ticks = @ + 1]
  /\ UNCHANGED <<settingsIndexExists, settingsDocs, scoresCache, scoresCacheTimestamp, lookup>>
  /\ UNCHANGED <<passVars, refreshDelayMs, scoreVars, matrixVars>>

\* =========================================== calculateScoresForLogSource
Times(a, b) == IF a.nan \/ b.nan THEN NaN ELSE Num(a.v * b.v)
Plus(a, b) == IF a.nan \/ b.nan THEN NaN ELSE Num(a.v + b.v)

Statuses == {"complete", "partial", "unmapped", "verified", "constructor"}
Confidences == {"high", "medium", "low", "", "certain", "toString"}

\* The object literals statusMultipliers and confidenceMultipliers, in tenths.
statusMultipliers == [complete |-> 10, partial |-> 5, unmapped |-> 0]
confidenceMultipliers == ("high" :> 10) @@ ("medium" :> 8) @@ ("low" :> 4) @@ ("" :> 0)

\* Names every object literal inherits from Object.prototype (two of them).
InheritedKeys == {"constructor", "toString"}

\* `table[key] ?? 0`: the literal's own value; for an inherited name the
\* inherited function, which is neither null nor undefined and makes every
\* product NaN; else 0.
MultiplierOrZero(table, key) ==
  IF key \in DOMAIN table THEN Num(table[key])
  ELSE IF key \in InheritedKeys THEN NaN
  ELSE Num(0)

LogDoc(i, t, v, d) ==
  [some |-> TRUE, ingested |-> i, timestamp |-> t, valid |-> v, deltaMs |-> d]

Deltas == {-1000, 240000, 299999, 300000, 600000, 900000, 2400000, 3600000, 5400000}

LastDocs ==
  {LogDoc(FALSE, TRUE, TRUE, 0), LogDoc(TRUE, FALSE, TRUE, 0), LogDoc(TRUE, TRUE, FALSE, 0)}
    \cup {LogDoc(TRUE, TRUE, TRUE, d) : d \in Deltas}

\* queryFieldExists: no probe without a name field and value; a failing search is
\* logged and counts as nothing found; else the first hit, if any.
queryFieldExists(nameGiven, ok, hit) ==
  IF nameGiven /\ ok /\ hit.some THEN [exists |-> TRUE, lastDoc |-> hit]
  ELSE [exists |-> FALSE, lastDoc |-> NullDoc]

\* The probes tried: <<name given, search succeeded, first hit>>.
ProbeCases ==
  {<<FALSE, TRUE, NullDoc>>, <<TRUE, FALSE, NullDoc>>, <<TRUE, TRUE, NullDoc>>}
    \cup {<<TRUE, TRUE, h>> : h \in LastDocs}

\* calculateDataFieldCompletenessScore: 0 and no probe for 'unmapped', else
\* Math.round(base * status multiplier * confidence multiplier * 100) / 100.
calculateDataFieldCompletenessScore(status, confidence, probe) ==
  IF status = "unmapped"
    THEN [score |-> Num(0), base_score |-> 0, lastDoc |-> NullDoc]
  ELSE LET base == IF probe.exists THEN 5 ELSE 0
           sm == MultiplierOrZero(statusMultipliers, status)
           cm == MultiplierOrZero(confidenceMultipliers, confidence)
           final == Times(Times(Num(base), sm), cm)
       IN [score |-> IF final.nan THEN NaN ELSE Num(MathRound(final.v, 1)),
           base_score |-> base, lastDoc |-> probe.lastDoc]

\* A timeliness score whose bands include their upper boundary.
calculateTimelinessInclusive(lastDoc) ==
  IF ~lastDoc.some \/ ~lastDoc.ingested \/ ~lastDoc.timestamp THEN Num(0)
  ELSE IF ~lastDoc.valid THEN Num(0)
  ELSE IF lastDoc.deltaMs <= 5 * 60000 THEN Num(500)
  ELSE IF lastDoc.deltaMs <= 15 * 60000 THEN Num(300)
  ELSE IF lastDoc.deltaMs <= 60 * 60000 THEN Num(100)
  ELSE Num(0)

\* calculateTimelinessScore: 0 without a record, without event.ingested or
\* without @timestamp; else by ingested - @timestamp in minutes (< 5: 5, < 15: 3,
\* < 60: 1, else 0; with an unparsable date every comparison is false).
calculateTimelinessScore(lastDoc) ==
  IF ~lastDoc.some \/ ~lastDoc.ingested \/ ~lastDoc.timestamp THEN Num(0)
  ELSE IF ~lastDoc.valid THEN Num(0)
  ELSE IF lastDoc.deltaMs < 5 * 60000 THEN Num(500)
  ELSE IF lastDoc.deltaMs < 15 * 60000 THEN Num(300)
  ELSE IF lastDoc.deltaMs < 60 * 60000 THEN Num(100)
  ELSE Num(0)

calculateConsistencyScore(fieldExists) == IF fieldExists THEN Num(500) ELSE Num(0)

calculateDeviceCompletenessScore(fieldExists, configuredScore) ==
  IF ~fieldExists THEN Num(0) ELSE Num(configuredScore)

calculateRetentionScore(fieldExists, configuredScore) ==
  IF ~fieldExists THEN Num(0) ELSE Num(configuredScore)

\* A quality score that averages the scores of four dimensions.
QualityOfFour(c, t, k, d, r) ==
  LET sum == Plus(Plus(Plus(c, t), k), d)
  IN IF sum.nan THEN NaN ELSE Num(10 * MathRound(sum.v * 10, 4 * 100))

\* Math.round(((c + t + k + d + r) / 5) * 10) / 10
QualityScore(c, t, k, d, r) ==
  LET sum == Plus(Plus(Plus(Plus(c, t), k), d), r)
  IN IF sum.nan THEN NaN ELSE Num(10 * MathRound(sum.v * 10, 5 * 100))

\* calculateScoresForLogSource of a reference with this status and confidence,
\* when the probe answers `probe`, the settings lookups return dcSettings and
\* retSettings and Math.random() returns num / den.
ScoresFor(status, confidence, probe, platform, dcSettings, retSettings, num, den) ==
  LET completenessResult == calculateDataFieldCompletenessScore(status, confidence, probe)
      fieldExists == completenessResult.base_score > 0
      timelinessResult == calculateTimelinessScore(completenessResult.lastDoc)
      consistencyResult == calculateConsistencyScore(fieldExists)
      deviceCompletenessResult ==
        calculateDeviceCompletenessScore(fieldExists,
          ScoreForPlatform(dcSettings, platform, DEFAULT_DEVICE_COMPLETENESS_SCORE))
      retentionResult ==
        calculateRetentionScore(fieldExists,
          ScoreForPlatform(retSettings, platform, DEFAULT_RETENTION_SCORE))
  IN [done |-> TRUE,
      next_execution |-> NextExecution(now, num, den),
      quality_score |-> QualityScore(completenessResult.score, timelinessResult,
                                     consistencyResult, deviceCompletenessResult,
                                     retentionResult),
      data_field_completeness |-> completenessResult.score,
      timeliness |-> timelinessResult,
      consistency |-> consistencyResult,
      device_completeness |-> deviceCompletenessResult,
      retention |-> retentionResult,
      base_score |-> completenessResult.base_score,
      lastDoc |-> completenessResult.lastDoc]

\* The settings maps a lookup may return: nothing configured, one platform, two.
SettingsMaps ==
  {EmptyScores, [pf \in {"windows"} |-> 125],
   [pf \in Platforms |-> IF pf = "windows" THEN 0 ELSE 500]}

\* Math.random() in 301sts: the least value, a middle one and the greatest that
\* gives a different number of seconds.
FineGrid == JitterMaxSeconds - JitterMinSeconds + 1
RandomNumerators == {0, 150, FineGrid - 1}

\* The refresh intervals a task runner is constructed with (`refreshDelayMs?:
\* number`, taken as given): the default when none is passed, zero, a negative one.
RefreshDelays == {DEFAULT_REFRESH_DELAY_MS, 0, -400000}

\* One call of calculateScoresForLogSource.
calculateScoresForLogSource(status, confidence, pc, platform, dcSettings, retSettings, num) ==
  /\ ~scoreIn.given
  /\ LET probe == queryFieldExists(pc[1], pc[2], pc[3])
     IN /\ scoreIn' = [given |-> TRUE, status |-> status, confidence |-> confidence,
                       exists |-> probe.exists, platform |-> platform, at |-> now,
                       probeFailed |-> (status # "unmapped" /\ pc[1] /\ ~pc[2])]
        /\ scoreOut' = ScoresFor(status, confidence, probe, platform, dcSettings,
                                 retSettings, num, FineGrid)
  /\ UNCHANGED <<passVars, refreshDelayMs, now, cacheVars, matrixVars>>

\* ====================================================== MitreMatrixParser
\* MITRE_TACTICS_ORDER, by short name.
TacticsOrder ==
  <<"reconnaissance", "resource-development", "initial-access", "execution",
    "persistence", "privilege-escalation", "defense-evasion", "credential-access",
    "discovery", "lateral-movement", "collection", "command-and-control",
    "exfiltration", "impact">>

\* The names of the bundles below in the order of localeCompare, and their
\* platforms in the order of Array.prototype.sort.
NameOrder == <<"Account Discovery", "Brute Force", "Cron", "Phishing">>
PlatformOrder == <<"Linux", "Windows", "macOS">>

NameRank(n) == CHOOSE i \in 1 .. Len(NameOrder) : NameOrder[i] = n

\* A STIX object: every field the parser reads.  name "" and hasRefs FALSE stand
\* for a missing name and missing external_references; extId is the external_id
\* of the first mitre-attack reference split at its dots (<<>> when there is none).
StixObject(type, id, name, extId) ==
  [type |-> type, id |-> id, name |-> name, hasRefs |-> TRUE, extId |-> extId,
   phases |-> <<>>, isSub |-> FALSE, deprecated |-> FALSE, revoked |-> FALSE,
   analyticRefs |-> <<>>, platforms |-> <<>>, relType |-> "", sourceRef |-> "",
   targetRef |-> ""]

Phase(chain, name) == [kill_chain_name |-> chain, phase_name |-> name]

Detects(id, src, tgt) ==
  [StixObject("relationship", id, "", <<>>) EXCEPT
     !.hasRefs = FALSE, !.relType = "detects", !.sourceRef = src, !.targetRef = tgt]

\* Three snapshots of the STIX file.  The third holds techniques without a
\* mitre-attack external id, subtechniques in other than alphabetical order and
\* one whose parent is not there, a revoked strategy and analytic, and a strategy
\* with two detects relations.
BundleA ==
  <<[StixObject("attack-pattern", "ap1", "Phishing", <<"T1566">>) EXCEPT
       !.phases = <<Phase("mitre-attack", "initial-access")>>],
    [StixObject("attack-pattern", "ap2", "Brute Force", <<"T1110">>) EXCEPT
       !.phases = <<Phase("mitre-attack", "credential-access"),
                    Phase("mitre-attack", "initial-access"),
                    Phase("other-chain", "impact")>>],
    [StixObject("attack-pattern", "ap3", "Cron", <<"T1110", "003">>) EXCEPT
       !.phases = <<Phase("mitre-attack", "credential-access")>>, !.isSub = TRUE],
    [StixObject("attack-pattern", "ap4", "Account Discovery", <<"T1087">>) EXCEPT
       !.phases = <<Phase("mitre-attack", "discovery")>>, !.revoked = TRUE],
    [StixObject("x-mitre-detection-strategy", "ds1", "Brute Force", <<"DET0001">>) EXCEPT
       !.analyticRefs = <<"an1", "an9">>],
    [StixObject("x-mitre-analytic", "an1", "Brute Force", <<"AN0001">>) EXCEPT
       !.platforms = <<"Windows", "Linux">>],
    Detects("r1", "ds1", "ap2"),
    Detects("r2", "ds1", "ap4")>>

BundleB ==
  <<[StixObject("attack-pattern", "ap5", "Account Discovery", <<"T1087">>) EXCEPT
       !.phases = <<Phase("mitre-attack", "discovery")>>],
    [StixObject("x-mitre-analytic", "an2", "Cron", <<"AN0002">>) EXCEPT
       !.platforms = <<"macOS">>]>>

BundleC ==
  <<[StixObject("attack-pattern", "ap10", "Phishing", <<>>) EXCEPT
       !.phases = <<Phase("mitre-attack", "initial-access")>>],
    [StixObject("attack-pattern", "ap11", "Cron", <<>>) EXCEPT
       !.phases = <<Phase("mitre-attack", "execution")>>],
    [StixObject("attack-pattern", "ap12", "Brute Force", <<"T1110">>) EXCEPT
       !.phases = <<Phase("mitre-attack", "credential-access"),
                    Phase("mitre-attack", "persistence")>>],
    [StixObject("attack-pattern", "ap13", "Phishing", <<"T1110", "002">>) EXCEPT
       !.phases = <<Phase("mitre-attack", "credential-access")>>, !.isSub = TRUE],
    [StixObject("attack-pattern", "ap14", "Account Discovery", <<"T1110", "001">>) EXCEPT
       !.phases = <<Phase("mitre-attack", "credential-access")>>, !.isSub = TRUE],
    [StixObject("attack-pattern", "ap15", "Cron", <<"T9999", "001">>) EXCEPT
       !.phases = <<Phase("mitre-attack", "execution")>>, !.isSub = TRUE],
    [StixObject("x-mitre-detection-strategy", "ds2", "Cron", <<"DET0002">>) EXCEPT
       !.analyticRefs = <<"an3">>, !.revoked = TRUE],
    [StixObject("x-mitre-analytic", "an3", "Phishing", <<"AN0003">>) EXCEPT
       !.platforms = <<"macOS">>, !.revoked = TRUE],
    [StixObject("x-mitre-detection-strategy", "ds3", "Brute Force", <<"DET0003">>) EXCEPT
       !.analyticRefs = <<>>],
    Detects("r3", "ds2", "ap12"),
    Detects("r4", "ds3", "ap12"),
    Detects("r5", "ds3", "ap11")>>

\* The STIX file: absent, unreadable, not JSON, the JSON value null, a JSON
\* object without an objects list, or a bundle.
SourceOf(kind, objects) == [kind |-> kind, objects |-> objects]

BadSourceKinds == {"missing", "unreadable", "notJson", "jsonNull", "noObjects"}

Sources ==
  {SourceOf(k, <<>>) : k \in BadSourceKinds}
    \cup {SourceOf("bundle", BundleA), SourceOf("bundle", BundleB),
          SourceOf("bundle", BundleC)}

\* loadStixData: null when the file is missing or when reading or JSON.parse
\* throws, else whatever JSON.parse returned.
loadStixData(src) ==
  IF src.kind \in {"missing", "unreadable", "notJson"}
    THEN [null |-> TRUE, hasObjects |-> FALSE, objects |-> <<>>]
  ELSE IF src.kind = "jsonNull"
    THEN [null |-> TRUE, hasObjects |-> FALSE, objects |-> <<>>]
  ELSE [null |-> FALSE, hasObjects |-> (src.kind = "bundle"), objects |-> src.objects]

\* The last object of a sequence with this id (Map.set overwrites), 0 if none.
LastWithId(objs, id) ==
  LET I == {i \in 1 .. Len(objs) : objs[i].id = id}
  IN IF I = {} THEN 0 ELSE CHOOSE i \in I : \A j \in I : j <= i

RECURSIVE SortByName(_)
\* Array.prototype.sort by name.localeCompare: stable.
SortByName(ts) ==
  IF ts = <<>> THEN <<>>
  ELSE LET i == CHOOSE k \in 1 .. Len(ts) :
                  \A j \in 1 .. Len(ts) :
                    \/ NameRank(ts[k].name) < NameRank(ts[j].name)
                    \/ (NameRank(ts[k].name) = NameRank(ts[j].name) /\ k <= j)
       IN <<ts[i]>> \o SortByName([j \in 1 .. (Len(ts) - 1) |->
                                     IF j < i THEN ts[j] ELSE ts[j + 1]])

extractAttackPatterns(objs) ==
  SelectSeq(objs, LAMBDA o : o.type = "attack-pattern" /\ ~o.deprecated /\ ~o.revoked
                             /\ o.name # "" /\ o.hasRefs)

extractDetectionStrategies(objs) ==
  SelectSeq(objs, LAMBDA o : o.type = "x-mitre-detection-strategy" /\ ~o.deprecated
                             /\ o.name # "" /\ o.hasRefs)

extractAnalytics(objs) ==
  SelectSeq(objs, LAMBDA o : o.type = "x-mitre-analytic" /\ ~o.deprecated
                             /\ o.name # "" /\ o.hasRefs)

extractDetectsRelationships(objs) ==
  SelectSeq(objs, LAMBDA o : o.type = "relationship" /\ o.relType = "detects"
                             /\ ~o.deprecated /\ o.sourceRef # "" /\ o.targetRef # "")

\* The phase names of the canonical kill chain, in order.
TacticShortNames(phases) ==
  LET own == SelectSeq(phases, LAMBDA ph : ph.kill_chain_name = "mitre-attack")
  IN [i \in 1 .. Len(own) |-> own[i].phase_name]

\* The analytics a strategy refers to that exist, in the order of its references.
AnalyticsOf(strategy, analytics) ==
  LET found == SelectSeq(strategy.analyticRefs, LAMBDA a : LastWithId(analytics, a) # 0)
  IN [i \in 1 .. Len(found) |->
        LET an == analytics[LastWithId(analytics, found[i])]
        IN [id |-> an.id, name |-> an.name, externalId |-> an.extId,
            platforms |-> an.platforms]]

\* linkDetectionStrategiesToTechniques, for the technique at position i: one
\* entry per detects relation whose target is this technique (the last technique
\* with that id) and whose source is a known strategy.
DetectionStrategiesOf(i, patterns, strategies, analytics, relations) ==
  LET mine == SelectSeq(relations,
                LAMBDA r : LastWithId(patterns, r.targetRef) = i
                           /\ LastWithId(strategies, r.sourceRef) # 0)
  IN [k \in 1 .. Len(mine) |->
        LET st == strategies[LastWithId(strategies, mine[k].sourceRef)]
        IN [id |-> st.id, name |-> st.name, externalId |-> st.extId,
            analytics |-> AnalyticsOf(st, analytics)]]

\* convertToTechniques followed by linkDetectionStrategiesToTechniques.  `ref` is
\* the identity of the object: the technique objects made here are numbered by
\* their position, the copies buildMatrix makes are numbered after them.
convertToTechniques(patterns, strategies, analytics, relations) ==
  [i \in 1 .. Len(patterns) |->
     LET p == patterns[i]
         isSubtechnique == p.isSub
     IN [ref |-> i, id |-> p.id, name |-> p.name, externalId |-> p.extId,
         tacticShortNames |-> TacticShortNames(p.phases),
         isSubtechnique |-> isSubtechnique,
         parentTechniqueId |-> IF isSubtechnique /\ Len(p.extId) > 1
                                 THEN <<p.extId[1]>> ELSE <<>>,
         subtechniques |-> <<>>,
         detectionStrategies |->
           DetectionStrategiesOf(i, patterns, strategies, analytics, relations)]]

\* collectAvailablePlatforms: the platforms of all analytics, sorted.
collectAvailablePlatforms(analytics) ==
  LET all == UNION {{analytics[i].platforms[k] : k \in 1 .. Len(analytics[i].platforms)} :
                      i \in {j \in 1 .. Len(analytics) :
                               LastWithId(analytics, analytics[j].id) = j}}
  IN SelectSeq(PlatformOrder, LAMBDA pf : pf \in all)

\* A subtechnique that every parent takes.
ResolvesToAnyParent(st, t) == st.parentTechniqueId # <<>>

\* `if (subtechnique.parentTechniqueId) techniqueMap.get(...)`: the parent a
\* subtechnique is pushed to.
ResolvesTo(st, t) == st.parentTechniqueId # <<>> /\ st.parentTechniqueId = t.externalId

\* buildMatrix: parents keyed by external id (a later parent with the same
\* external id replaces the earlier one, at its place), subtechniques pushed to
\* the parent their parent id names and sorted, then per tactic the parents that
\* list it, sorted by name.
buildMatrix(techniques, availablePlatforms) ==
  LET parentTechniques == SelectSeq(techniques, LAMBDA t : ~t.isSubtechnique)
      subtechniques == SelectSeq(techniques, LAMBDA t : t.isSubtechnique)
      firsts == SelectSeq([i \in 1 .. Len(parentTechniques) |-> i],
                  LAMBDA i : \A j \in 1 .. (i - 1) :
                    parentTechniques[j].externalId # parentTechniques[i].externalId)
      Last(i) == CHOOSE k \in 1 .. Len(parentTechniques) :
                   /\ parentTechniques[k].externalId = parentTechniques[i].externalId
                   /\ \A j \in 1 .. Len(parentTechniques) :
                        parentTechniques[j].externalId = parentTechniques[i].externalId
                          => j <= k
      techniqueMap ==
        [n \in 1 .. Len(firsts) |->
           LET t == parentTechniques[Last(firsts[n])]
           IN [t EXCEPT !.ref = Len(techniques) + Last(firsts[n]),
                        !.subtechniques =
                          SortByName(SelectSeq(subtechniques,
                                               LAMBDA st : ResolvesTo(st, t)))]]
  IN [tactics |->
        [n \in 1 .. Len(TacticsOrder) |->
           [tactic |-> TacticsOrder[n],
            techniques |->
              SortByName(SelectSeq(techniqueMap,
                LAMBDA t : \E k \in 1 .. Len(t.tacticShortNames) :
                             t.tacticShortNames[k] = TacticsOrder[n]))]],
      availablePlatforms |-> availablePlatforms]

\* getEmptyTactics with an empty platform list.
EmptyTaxonomy ==
  [tactics |-> [n \in 1 .. Len(TacticsOrder) |->
                  [tactic |-> TacticsOrder[n], techniques |-> <<>>]],
   availablePlatforms |-> <<>>]

\* parseMatrix: the empty taxonomy when loadStixData returns null; a TypeError
\* from `stixData.objects.filter` when the parsed value has no objects list; else
\* the taxonomy built from the objects.
parseMatrix(src) ==
  LET stixData == loadStixData(src)
  IN IF stixData.null THEN [threw |-> FALSE, matrix |-> EmptyTaxonomy]
     ELSE IF ~stixData.hasObjects THEN [threw |-> TRUE, matrix |-> EmptyTaxonomy]
     ELSE LET attackPatterns == extractAttackPatterns(stixData.objects)
              detectionStrategies == extractDetectionStrategies(stixData.objects)
              analytics == extractAnalytics(stixData.objects)
              detectsRelationships == extractDetectsRelationships(stixData.objects)
              techniques == convertToTechniques(attackPatterns, detectionStrategies,
                                                analytics, detectsRelationships)
          IN [threw |-> FALSE,
              matrix |-> buildMatrix(techniques, collectAvailablePlatforms(analytics))]

\* getMatrix returned or threw: what the caller observed.
MatrixReturn(c, outcome, matrix, parsed) ==
  [IdleMatrixCall EXCEPT
     !.last = [outcome |-> outcome, matrix |-> matrix, startClears |-> c.startClears,
               parsed |-> parsed, parsedKind |-> c.parsedKind,
               parsedObjects |-> c.parsedObjects]]

\* getMatrix up to its await.  With a cached taxonomy it returns it.  Without,
\* parseMatrix runs at once (it awaits nothing): when it throws, getMatrix rejects;
\* else the assignment to cachedMatrix is left to the continuation.
getMatrix(m) ==
  /\ mcall[m].pc = "idle"
  /\ IF cachedMatrix.some
       THEN /\ mcall' = [mcall EXCEPT ![m] =
                 MatrixReturn([IdleMatrixCall EXCEPT !.startClears = mhist.clears],
                              "returned", cachedMatrix, FALSE)]
            /\ mhist' = [mhist EXCEPT !.returnedSinceClear = @ \cup {cachedMatrix.build}]
       ELSE /\ mhist.builds < MaxBuilds
            /\ LET r == parseMatrix(source)
                   c == [IdleMatrixCall EXCEPT !.startClears = mhist.clears,
                                               !.parsedKind = source.kind,
                                               !.parsedObjects = source.objects]
               IN IF r.threw
                    THEN /\ mcall' = [mcall EXCEPT ![m] =
                               MatrixReturn(c, "threw", NoMatrix, TRUE)]
                         /\ mhist' = mhist
                    ELSE /\ mcall' = [mcall EXCEPT ![m] =
                               [c EXCEPT !.pc = "await",
                                         !.matrix = [some |-> TRUE,
                                                     build |-> mhist.builds + 1,
                                                     epoch |-> mhist.clears,
                                                     tactics |-> r.matrix.tactics,
                                                     availablePlatforms |->
                                                       r.matrix.availablePlatforms]]]
                         /\ mhist' = [mhist EXCEPT !.builds = @ + 1,
                                                   !.buildsSinceClear = @ + 1]
  /\ UNCHANGED <<source, cachedMatrix>>
  /\ UNCHANGED <<passVars, refreshDelayMs, now, cacheVars, scoreVars>>

\* The continuation of getMatrix: `this.cachedMatrix = <the parsed taxonomy>;
\* return this.cachedMatrix`.
getMatrix_AfterParse(m) ==
  /\ mcall[m].pc = "await"
  /\ cachedMatrix' = mcall[m].matrix
  /\ mcall' = [mcall EXCEPT ![m] = MatrixReturn(mcall[m], "returned", mcall[m].matrix, TRUE)]
  /\ mhist' = [mhist EXCEPT !.returnedSinceClear = @ \cup {mcall[m].matrix.build}]
  /\ UNCHANGED source
  /\ UNCHANGED <<passVars, refreshDelayMs, now, cacheVars, scoreVars>>

clearCache ==
  /\ mhist.clears < MaxClears
  /\ cachedMatrix' = NoMatrix
  /\ mhist' = [mhist EXCEPT !.clears = @ + 1, !.buildsSinceClear = 0,
                            !.returnedSinceClear = {}]
  /\ UNCHANGED <<source, mcall>>
  /\ UNCHANGED <<passVars, refreshDelayMs, now, cacheVars, scoreVars>>

\* The STIX file is replaced on disk.
ReplaceSource(src) ==
  /\ mhist.changes < MaxSourceChanges
  /\ src # source
  /\ source' = src
  /\ mhist' = [mhist EXCEPT !.changes = @ + 1]
  /\ UNCHANGED <<cachedMatrix, mcall>>
  /\ UNCHANGED <<passVars, refreshDelayMs, now, cacheVars, scoreVars>>

\* The entries of a taxonomy: the techniques listed under tactic n, the
\* techniques listed under any tactic, and these with their subtechniques.
ListedUnder(matrix, n) ==
  {matrix.tactics[n].techniques[k] : k \in 1 .. Len(matrix.tactics[n].techniques)}

ListedTechniques(matrix) == UNION {ListedUnder(matrix, n) : n \in 1 .. Len(matrix.tactics)}

SubtechniquesOf(t) == {t.subtechniques[k] : k \in 1 .. Len(t.subtechniques)}

AllTechniques(matrix) ==
  ListedTechniques(matrix) \cup UNION {SubtechniquesOf(t) : t \in ListedTechniques(matrix)}

\* The getMatrix call of m has returned a taxonomy it built itself from a bundle.
BuiltFromBundle(m) ==
  /\ mcall[m].last.outcome = "returned"
  /\ mcall[m].last.parsed
  /\ mcall[m].last.parsedKind = "bundle"

\* The last getMatrix call of m returned the empty taxonomy it got from
\* parseMatrix because loadStixData returned null, and clearCache has not been
\* called since that call started.
FallbackReturned(m) ==
  /\ mcall[m].pc = "idle"
  /\ mcall[m].last.outcome = "returned"
  /\ mcall[m].last.parsed
  /\ loadStixData(SourceOf(mcall[m].last.parsedKind, mcall[m].last.parsedObjects)).null
  /\ mcall[m].last.startClears = mhist.clears

\* ------------------------------------------------ the specifications
\* The settings cache under lookups, saves, invalidations and a moving clock.
InitCache ==
  /\ PassQuiet /\ ScoreQuiet /\ MatrixQuiet
  /\ refreshDelayMs = DEFAULT_REFRESH_DELAY_MS
  /\ now = StartTime
  /\ settingsIndexExists \in BOOLEAN
  /\ \E m \in SettingsMaps :
       settingsDocs = [d \in Dims |->
                         IF settingsIndexExists /\ d = "retention"
                           THEN SettingsDoc(m) ELSE NoSettingsDoc]
  /\ scoresCache = [d \in Dims |-> EmptyScores]
  /\ scoresCacheTimestamp = [d \in Dims |-> 0]
  /\ lookup = [s \in Scorers |-> IdleLookup]
  /\ hist = FreshHist

NextCache ==
  \/ \E s \in Scorers, d \in Dims, pf \in Platforms \cup {NoPlatform} :
       getScoreForPlatform(s, d, pf)
  \/ \E s \in Scorers : Settings_ExistsServed(s)
  \/ \E s \in Scorers : fetchSettings_AfterExists(s)
  \/ \E s \in Scorers : Settings_GetServed(s)
  \/ \E s \in Scorers : fetchSettings_AfterGet(s)
  \/ invalidateSettingsCache
  \/ \E d \in Dims, pf \in Platforms, sc \in SavedScores : SaveSetting(d, pf, sc)
  \/ \E dt \in CacheTickSteps : CacheTick(dt)

SpecCache == InitCache /\ [][NextCache]_vars

\* One scoring call, for every refresh interval, reference, probe answer,
\* settings content and random draw.
InitScore ==
  /\ PassQuiet /\ CacheQuiet /\ ScoreQuiet /\ MatrixQuiet
  /\ refreshDelayMs \in RefreshDelays
  /\ now = StartTime

NextScore ==
  /\ ~scoreIn.given
  /\ \E st \in Statuses, cf \in Confidences, pc \in ProbeCases,
        pf \in Platforms \cup {NoPlatform}, dc \in SettingsMaps, rt \in SettingsMaps,
        num \in RandomNumerators :
       calculateScoresForLogSource(st, cf, pc, pf, dc, rt, num)

SpecScore == InitScore /\ [][NextScore]_vars

\* The taxonomy parser under overlapping getMatrix calls, clearCache and a
\* changing STIX file.
InitMatrix ==
  /\ PassQuiet /\ CacheQuiet /\ ScoreQuiet
  /\ refreshDelayMs = DEFAULT_REFRESH_DELAY_MS
  /\ now = 0
  /\ source \in Sources
  /\ cachedMatrix = NoMatrix
  /\ mcall = [m \in MatrixCallers |-> IdleMatrixCall]
  /\ mhist = FreshMatrixHist

NextMatrix ==
  \/ \E m \in MatrixCallers : getMatrix(m)
  \/ \E m \in MatrixCallers : getMatrix_AfterParse(m)
  \/ clearCache
  \/ \E src \in Sources : ReplaceSource(src)

SpecMatrix == InitMatrix /\ [][NextMatrix]_vars

\* Incremental passes triggered one after the other for ever, by one caller, over
\* a catalog of MaxCatalog analytics and a results index that starts empty; store
\* operations fail while the fault budget lasts.  Weak fairness: the caller and
\* the store keep taking their steps.
InitLive ==
  /\ isRunning = FALSE
  /\ logsClient = InternalClient
  /\ refreshDelayMs = DEFAULT_REFRESH_DELAY_MS
  /\ now = 0
  /\ ticks = 0
  /\ ecsExists = TRUE
  /\ catalog = CatalogOf(MaxCatalog)
  /\ resultsExists \in BOOLEAN
  /\ results = [id \in DOMAIN catalog |-> NoDoc]
  /\ openScrolls = 0
  /\ faults = 0
  /\ call = [p \in Procs |-> IdleCall]
  /\ obs = [p \in Procs |-> FreshObs]
  /\ CacheQuiet /\ ScoreQuiet /\ MatrixQuiet

NextLive ==
  \/ \E d \in TickSteps : Tick(d)
  \/ \E c \in UserClients : runSmartScoringWithClient(1, c)
  \/ \E ok \in BOOLEAN : ProcessAll_IndexExists(1, ok)
  \/ \E ok \in BOOLEAN : ProcessAll_Search(1, ok)
  \/ \E rs \in RandomDraws, out \in ItemOutcomes : ProcessAll_Item(1, rs, out)
  \/ \E ok \in BOOLEAN : ProcessAll_Scroll(1, ok)
  \/ \E ok \in BOOLEAN : ProcessAll_ClearScroll(1, ok)
  \/ \E ok \in BOOLEAN : ProcessAll_Refresh(1, ok)
  \/ FinishSmartInit(1)
  \/ \E ok \in BOOLEAN : Smart_IndexExists(1, ok)
  \/ \E ok \in BOOLEAN : Smart_Count(1, ok)
  \/ \E ok \in BOOLEAN : Smart_Scan(1, ok)
  \/ \E rs \in RandomDraws, out \in ItemOutcomes : Smart_Item(1, rs, out)
  \/ \E ok \in BOOLEAN : Smart_Refresh(1, ok)

SpecLive == InitLive /\ [][NextLive]_vars /\ WF_vars(NextLive)

\* Incremental passes of one caller in which the probe of an analytic may fail
\* like any other store operation, beside one scoring call of a reference whose
\* probe may fail.
NextProbe ==
  \/ \E d \in TickSteps : Tick(d)
  \/ \E c \in UserClients : runSmartScoringWithClient(1, c)
  \/ \E ok \in BOOLEAN : ProcessAll_IndexExists(1, ok)
  \/ \E ok \in BOOLEAN : ProcessAll_Search(1, ok)
  \/ \E rs \in RandomDraws, out \in ProbeOutcomes : ProcessAll_Item(1, rs, out)
  \/ \E ok \in BOOLEAN : ProcessAll_Scroll(1, ok)
  \/ \E ok \in BOOLEAN : ProcessAll_ClearScroll(1, ok)
  \/ \E ok \in BOOLEAN : ProcessAll_Refresh(1, ok)
  \/ FinishSmartInit(1)
  \/ \E ok \in BOOLEAN : Smart_IndexExists(1, ok)
  \/ \E ok \in BOOLEAN : Smart_Count(1, ok)
  \/ \E ok \in BOOLEAN : Smart_Scan(1, ok)
  \/ \E rs \in RandomDraws, out \in ProbeOutcomes : Smart_Item(1, rs, out)
  \/ \E ok \in BOOLEAN : Smart_Refresh(1, ok)
  \/ /\ ~scoreIn.given
     /\ \E st \in {"complete", "unmapped"}, cf \in {"high", "low"}, pc \in ProbeCases :
          calculateScoresForLogSource(st, cf, pc, NoPlatform, EmptyScores, EmptyScores, 0)

SpecProbe == InitLive /\ [][NextProbe]_vars

\* ---------------------------------------------------------------- claims
InSection(p) == call[p].pc # "idle"

\* C1: on one task runner at most one pass is inside its running section (between
\* setting the flag and clearing it) at any time, whatever the interleaving of
\* runFullCalculation, runFullCalculationWithClient and runSmartScoringWithClient.
C1_AtMostOnePass ==
  \A p, q \in Procs : (InSection(p) /\ InSection(q)) => p = q

\* A request arrived while another caller's pass was in flight.
C1_Witness ==
  \E p, q \in Procs : p # q /\ InSection(p) /\ obs[q].outcome = "rejected"

\* C2: a pass request that arrives while a pass is in flight is a no-op: the smart
\* variant returns {action: 'none', count: 0}, the full variants return nothing,
\* no store operation is issued, and the flag, the probe client, the in-flight
\* pass and the store are left as they were.
C2_RejectedIsNoOp ==
  [][\A p \in Procs :
       (isRunning /\ call[p].pc = "idle" /\ obs'[p] # obs[p]) =>
         /\ obs'[p].outcome = "rejected"
         /\ obs'[p].ops = {}
         /\ obs'[p].written = {}
         /\ obs'[p].result = IF obs'[p].kind = "smart" THEN NoneResult ELSE VoidResult
         /\ UNCHANGED <<isRunning, logsClient, call, resultsExists, results,
                        openScrolls, faults>>]_vars

\* A smart request with the user's client was rejected while a background full
\* pass (probing with the internal client) was in flight.
C2_Witness ==
  \E p, q \in Procs :
    /\ InSection(p) /\ obs[p].kind = "full"
    /\ obs[q].outcome = "rejected" /\ obs[q].kind = "smart"

\* C3: the running flag is cleared whenever an admitted pass ends, on every
\* outcome: with no pass inside its running section the flag is false, so the
\* next request is admitted.
C3_FlagNeverStuck ==
  (\A p \in Procs : ~InSection(p)) => ~isRunning

\* A pass ended by a structural failure that was thrown to its caller, and no pass
\* is running.
C3_Witness ==
  /\ \A p \in Procs : ~InSection(p)
  /\ \E p \in Procs : obs[p].outcome = "threw" /\ obs[p].structural

\* C4: whenever no pass is running the probe client is the internal client, and a
\* background pass (runFullCalculation) probes with the internal client only.
C4_ProbeClientRestored ==
  /\ ~isRunning => logsClient = InternalClient
  /\ \A p \in Procs : obs[p].kind = "full" => obs[p].probedWith \subseteq {InternalClient}

\* A pass with the caller's client ended on a structural failure, and a background
\* pass started after it has probed.
C4_Witness ==
  \E p, q \in Procs :
    /\ obs[q].kind \in {"smart", "fullWithClient"}
    /\ obs[q].structural /\ ~InSection(q)
    /\ obs[p].kind = "full" /\ InSection(p) /\ obs[p].probedWith # {}

\* C5: an admitted incremental pass that finds the results index absent or with
\* zero documents runs processAllAnalytics (which, when it returns, has scored
\* every scorable analytic of the catalog) and, when it returns, reports
\* {action: 'init', count: -1}; and 'init' is reported in no other case.
C5_EmptyStoreIsInit ==
  \A p \in Procs :
    /\ (obs[p].kind = "smart" /\ (obs[p].existsSeen = "no" \/ obs[p].countSeen = 0)) =>
         /\ obs[p].ranFull
         /\ obs[p].outcome = "returned" => obs[p].result = InitResult
         /\ (call[p].pc = "pa_ret" /\ ~call[p].thrown /\ ecsExists) =>
              obs[p].attempted = ScorableIds
    /\ obs[p].result = InitResult =>
         (obs[p].kind = "smart" /\ (obs[p].existsSeen = "no" \/ obs[p].countSeen = 0))

\* An incremental pass counted zero documents, ran the full pass and reported init.
C5_Witness ==
  \E p \in Procs :
    /\ obs[p].kind = "smart" /\ obs[p].countSeen = 0
    /\ obs[p].outcome = "returned" /\ obs[p].result = InitResult
    /\ "results.index" \in obs[p].ops

\* C6: an admitted incremental pass that finds the results index non-empty and no
\* stored result with an elapsed next_execution reports {action: 'none', count: 0}
\* and neither indexes a document nor refreshes the index.
C6_NothingDueIsNone ==
  \A p \in Procs :
    (obs[p].kind = "smart" /\ obs[p].scanned /\ obs[p].countSeen > 0
       /\ obs[p].dueAtScan = {}) =>
      /\ ~InSection(p)
      /\ obs[p].outcome = "returned"
      /\ obs[p].result = NoneResult
      /\ "results.index" \notin obs[p].ops
      /\ "results.refresh" \notin obs[p].ops

\* An incremental pass scanned a non-empty results index in which nothing was due.
C6_Witness ==
  \E p \in Procs :
    /\ obs[p].kind = "smart" /\ obs[p].scanned /\ obs[p].countSeen > 0
    /\ obs[p].dueAtScan = {} /\ ~obs[p].structural
    /\ obs[p].result = NoneResult

\* C7: in an incremental pass over a non-empty results index, when the update loop
\* is over the documents recomputed and written back are exactly the stored
\* results with an elapsed next_execution at scan time, however many there are.
C7_UpdatesExactlyTheDue ==
  \A p \in Procs :
    call[p].pc = "sm_refresh" =>
      /\ obs[p].attempted = obs[p].dueAtScan
      /\ obs[p].written = obs[p].dueAtScan

\* C8: a full pass that opened a scroll over the catalog has called clearScroll by
\* the time processAllAnalytics returns or throws.
C8_ScrollClosedOnEveryExit ==
  \A p \in Procs :
    (call[p].pc = "pa_ret" /\ obs[p].scrollOpened) => "clearScroll" \in obs[p].ops

\* C9: a failure while scoring or persisting one analytic never aborts the batch:
\* an exception leaves a pass only on a structural failure, and a pass without a
\* structural failure has processed every analytic of its batch, written every
\* one that did not fail, and reached its final refresh.
C9_ItemFailureDoesNotAbort ==
  \A p \in Procs :
    /\ call[p].thrown => obs[p].structural
    /\ obs[p].outcome = "threw" => obs[p].structural
    /\ (call[p].pc = "pa_ret" /\ ~call[p].thrown /\ ecsExists) =>
         /\ obs[p].attempted = ScorableIds
         /\ obs[p].written = obs[p].attempted \ obs[p].failed
         /\ "results.refresh" \in obs[p].ops
    /\ call[p].pc = "sm_refresh" =>
         /\ obs[p].attempted = obs[p].batch
         /\ obs[p].written = obs[p].attempted \ obs[p].failed

\* A full pass in which one analytic failed and another was written has returned
\* from its final refresh.
C9_Witness ==
  \E p \in Procs :
    /\ call[p].pc = "pa_ret" /\ ~call[p].thrown
    /\ obs[p].failed # {} /\ obs[p].written # {}
    /\ "results.refresh" \in obs[p].ops

\* C10: a structural failure during a pass reaches the caller of the pass as a
\* failure, for every pass entry point.
C10_StructuralFailurePropagates ==
  \A p \in Procs :
    (obs[p].structural /\ ~InSection(p)) => obs[p].outcome = "threw"

\* C12: a settings lookup that starts after invalidateSettingsCache(), with no
\* save and no further invalidation until it returns, returns the map the
\* settings store holds, whatever lookups were in flight at the invalidation.
C12_InvalidationForcesFreshRead ==
  \A s \in Scorers :
    (lookup[s].seen.done /\ lookup[s].seen.settled)
      => lookup[s].seen.map = lookup[s].seen.stored

\* C13: per dimension, a lookup less than 60 seconds after the last fetch of its
\* dimension, with no invalidation in between, returns the cached map without
\* reading the store; a lookup 60 seconds or more after it, or before any fetch,
\* reads the store.
C13_TtlPerDimension ==
  \A s \in Scorers :
    LET seen == lookup[s].seen
    IN seen.done =>
         /\ (seen.fetchedBefore /\ ~seen.invalidated /\ seen.age < 60000)
              => (seen.hit /\ ~seen.readStore /\ seen.map = seen.cached)
         /\ (seen.fetchedBefore /\ seen.age >= 60000) => seen.readStore
         /\ ~seen.fetchedBefore => seen.readStore

\* A lookup one millisecond before the cache of its dimension expires, while the
\* other dimension has never been fetched.
C13_Witness ==
  \E s \in Scorers :
    /\ lookup[s].seen.done
    /\ lookup[s].seen.fetchedBefore
    /\ ~lookup[s].seen.invalidated
    /\ lookup[s].seen.age = 59999
    /\ lookup[s].seen.hit
    /\ \E d \in Dims : hist.fetchedAt[d] < 0

\* C14: between two clearCache calls at most one taxonomy is built, and every
\* getMatrix call returns that one, also when calls overlap.
C14_BuiltOncePerClear ==
  /\ mhist.buildsSinceClear <= 1
  /\ Cardinality(mhist.returnedSinceClear) <= 1

\* C15: a getMatrix call that starts after a clearCache returns a taxonomy built
\* after that clearCache, also when an earlier getMatrix was unresolved at the
\* clearCache.
C15_ClearForcesRebuild ==
  \A m \in MatrixCallers :
    mcall[m].last.outcome = "returned"
      => mcall[m].last.matrix.epoch >= mcall[m].last.startClears

\* C16: getMatrix never throws, and from a missing, unreadable or non-JSON file
\* or a JSON value that is no bundle it builds the 14 tactics in canonical order
\* with no techniques and no platforms.
C16_NeverFailsOnSource ==
  \A m \in MatrixCallers :
    /\ mcall[m].last.outcome # "threw"
    /\ (mcall[m].last.outcome = "returned" /\ mcall[m].last.parsed
          /\ mcall[m].last.parsedKind \in BadSourceKinds)
         => /\ mcall[m].last.matrix.tactics = EmptyTaxonomy.tactics
            /\ mcall[m].last.matrix.availablePlatforms = <<>>

\* C17: the five dimension scores and quality_score of every ScoreSet lie in
\* [0, 5].
C17_ScoresWithinRange ==
  scoreOut.done =>
    \A x \in {scoreOut.data_field_completeness, scoreOut.timeliness, scoreOut.consistency,
              scoreOut.device_completeness, scoreOut.retention, scoreOut.quality_score} :
      ~x.nan /\ 0 <= x.v /\ x.v <= 500

\* C18: quality_score is the mean of the five dimension scores of the same
\* ScoreSet, rounded to one decimal (halves upwards); it is a number exactly when
\* all five are.
C18_QualityIsRoundedMean ==
  scoreOut.done =>
    LET parts == <<scoreOut.data_field_completeness, scoreOut.timeliness,
                   scoreOut.consistency, scoreOut.device_completeness, scoreOut.retention>>
        sum == parts[1].v + parts[2].v + parts[3].v + parts[4].v + parts[5].v
        q == scoreOut.quality_score
    IN /\ q.nan <=> (\E i \in 1 .. 5 : parts[i].nan)
       /\ ~q.nan => /\ q.v % 10 = 0
                    /\ 10 * q.v - 50 <= 2 * sum
                    /\ 2 * sum < 10 * q.v + 50

\* A ScoreSet whose mean lies exactly between two tenths.
C18_Witness ==
  /\ scoreOut.done
  /\ ~scoreOut.quality_score.nan
  /\ scoreOut.data_field_completeness.v + scoreOut.timeliness.v + scoreOut.consistency.v
       + scoreOut.device_completeness.v + scoreOut.retention.v = 2125
  /\ scoreOut.quality_score.v = 430

C20_CompletenessFormula ==
  scoreOut.done =>
    LET sm == IF scoreIn.status \in DOMAIN statusMultipliers
                THEN statusMultipliers[scoreIn.status] ELSE 0
        cm == IF scoreIn.confidence \in DOMAIN confidenceMultipliers
                THEN confidenceMultipliers[scoreIn.confidence] ELSE 0
        base == IF scoreIn.exists THEN 5 ELSE 0
    IN /\ ~scoreOut.data_field_completeness.nan
       /\ scoreOut.data_field_completeness.v =
            IF scoreIn.status = "unmapped" THEN 0 ELSE base * sm * cm

\* C11: an analytic that a pass over the whole catalog has left without a
\* result (its scoring or writing failed, or the pass ended before it) gets a
\* result written by a later incremental pass.
C11_UndoneWorkIsPickedUp ==
  \A id \in 1 .. MaxCatalog :
    (/\ call[1].pc = "idle"
     /\ obs[1].ranFull
     /\ Scorable(id)
     /\ ~results[id].present)
      ~> results[id].present

C22_ProbeFailureIsAbsorbed ==
  /\ (scoreOut.done /\ scoreIn.probeFailed) =>
       /\ ~scoreIn.exists
       /\ scoreOut.lastDoc = NullDoc
       /\ scoreOut.base_score = 0
       /\ \A x \in {scoreOut.data_field_completeness, scoreOut.timeliness,
                    scoreOut.consistency, scoreOut.device_completeness,
                    scoreOut.retention, scoreOut.quality_score} : x = Num(0)
  /\ obs[1].probeFailed \subseteq obs[1].written
  /\ obs[1].probeFailed \cap obs[1].failed = {}
  /\ call[1].thrown => obs[1].structural
  /\ obs[1].outcome = "threw" => obs[1].structural
  /\ (call[1].pc = "pa_ret" /\ ~call[1].thrown) =>
       /\ obs[1].attempted = ScorableIds
       /\ obs[1].written = obs[1].attempted \ obs[1].failed
  /\ call[1].pc = "sm_refresh" =>
       /\ obs[1].attempted = obs[1].batch
       /\ obs[1].written = obs[1].attempted \ obs[1].failed

\* The probe of the first analytic of a pass failed, the pass went on to write a
\* later one, and a scoring call with a failing probe has returned.
C22_Witness ==
  /\ call[1].pc = "pa_ret" /\ ~call[1].thrown
  /\ obs[1].probeFailed = {1}
  /\ obs[1].written = ScorableIds
  /\ results[1].present
  /\ scoreOut.done /\ scoreIn.probeFailed

\* C23: every technique of the source that is not deprecated, not revoked, has a
\* name and external references, is no subtechnique and names a tactic of the
\* catalog in a phase of the mitre-attack kill chain is listed under that tactic.
C23_TechniqueUnderEachTactic ==
  \A m \in MatrixCallers :
    BuiltFromBundle(m) =>
      LET objs == mcall[m].last.parsedObjects
          matrix == mcall[m].last.matrix
      IN \A n \in 1 .. Len(TacticsOrder), i \in 1 .. Len(objs) :
           (/\ objs[i].type = "attack-pattern"
            /\ ~objs[i].deprecated /\ ~objs[i].revoked
            /\ objs[i].name # "" /\ objs[i].hasRefs
            /\ ~objs[i].isSub
            /\ \E k \in 1 .. Len(objs[i].phases) :
                 objs[i].phases[k] = Phase("mitre-attack", TacticsOrder[n]))
             => \E t \in ListedUnder(matrix, n) : t.id = objs[i].id

\* C24: no technique object and no subtechnique object is shared between the
\* lists of two tactics.
C24_NoSharedEntries ==
  \A m \in MatrixCallers :
    BuiltFromBundle(m) =>
      LET matrix == mcall[m].last.matrix
      IN \A n1, n2 \in 1 .. Len(TacticsOrder) :
           n1 # n2 =>
             \A t1 \in ListedUnder(matrix, n1), t2 \in ListedUnder(matrix, n2) :
               /\ t1.ref # t2.ref
               /\ \A s1 \in SubtechniquesOf(t1), s2 \in SubtechniquesOf(t2) : s1.ref # s2.ref

\* C25: a subtechnique whose parent id names a technique of the taxonomy is in
\* the subtechnique list of that parent, once, and of no other technique; every
\* subtechnique list is sorted by name; a subtechnique whose parent id names no
\* technique of the source is in no list.
C25_SubtechniquesUnderOneParent ==
  \A m \in MatrixCallers :
    BuiltFromBundle(m) =>
      LET objs == mcall[m].last.parsedObjects
          parents == ListedTechniques(mcall[m].last.matrix)
          Holders(id) == {t \in parents : \E s \in SubtechniquesOf(t) : s.id = id}
      IN /\ \A i \in 1 .. Len(objs) :
              (/\ objs[i].type = "attack-pattern" /\ objs[i].isSub
               /\ ~objs[i].deprecated /\ ~objs[i].revoked
               /\ objs[i].name # "" /\ objs[i].hasRefs)
                =>
                /\ \A t \in Holders(objs[i].id) :
                     /\ Len(objs[i].extId) > 1
                     /\ t.externalId = <<objs[i].extId[1]>>
                     /\ Cardinality({k \in 1 .. Len(t.subtechniques) :
                                       t.subtechniques[k].id = objs[i].id}) = 1
                /\ Cardinality({t.ref : t \in Holders(objs[i].id)}) <= 1
                /\ (Len(objs[i].extId) > 1
                      /\ \E t \in parents : t.externalId = <<objs[i].extId[1]>>)
                     => Holders(objs[i].id) # {}
         /\ \A t \in parents :
              \A k, l \in 1 .. Len(t.subtechniques) :
                k < l => NameRank(t.subtechniques[k].name) <= NameRank(t.subtechniques[l].name)

\* A taxonomy whose technique T1110 holds its two subtechniques in the order of
\* their names, the reverse of their order in the source, which also holds a
\* subtechnique of a parent that is not there.
C25_Witness ==
  \E m \in MatrixCallers :
    /\ BuiltFromBundle(m)
    /\ \E i \in 1 .. Len(mcall[m].last.parsedObjects) :
         mcall[m].last.parsedObjects[i].id = "ap15"
    /\ \E t \in ListedTechniques(mcall[m].last.matrix) :
         /\ t.id = "ap12"
         /\ Len(t.subtechniques) = 2
         /\ t.subtechniques[1].id = "ap14"
         /\ t.subtechniques[2].id = "ap13"

\* C26: no object of the source that is deprecated or revoked is in the
\* taxonomy, as technique, subtechnique, detection strategy or analytic, and the
\* platform list holds only platforms of analytics that are neither.
C26_NoDeprecatedOrRevoked ==
  \A m \in MatrixCallers :
    BuiltFromBundle(m) =>
      LET objs == mcall[m].last.parsedObjects
          matrix == mcall[m].last.matrix
          excluded == {objs[i].id : i \in {j \in 1 .. Len(objs) :
                                            objs[j].deprecated \/ objs[j].revoked}}
          live == {i \in 1 .. Len(objs) :
                     objs[i].type = "x-mitre-analytic"
                       /\ ~objs[i].deprecated /\ ~objs[i].revoked}
      IN /\ \A t \in AllTechniques(matrix) :
              /\ t.id \notin excluded
              /\ \A k \in 1 .. Len(t.detectionStrategies) :
                   /\ t.detectionStrategies[k].id \notin excluded
                   /\ \A a \in 1 .. Len(t.detectionStrategies[k].analytics) :
                        t.detectionStrategies[k].analytics[a].id \notin excluded
         /\ \A k \in 1 .. Len(matrix.availablePlatforms) :
              \E i \in live : \E j \in 1 .. Len(objs[i].platforms) :
                objs[i].platforms[j] = matrix.availablePlatforms[k]

\* C27: a detection strategy is in the detection-strategy list of at most one
\* technique of the taxonomy, and there once.
C27_StrategyOnOneTechnique ==
  \A m \in MatrixCallers :
    BuiltFromBundle(m) =>
      LET all == AllTechniques(mcall[m].last.matrix)
          strategies == UNION {{t.detectionStrategies[k].id :
                                  k \in 1 .. Len(t.detectionStrategies)} : t \in all}
      IN \A sid \in strategies :
           Cardinality(UNION {{<<t.id, k>> : k \in {j \in 1 .. Len(t.detectionStrategies) :
                                                      t.detectionStrategies[j].id = sid}} :
                              t \in all}) = 1

\* C28: when an incremental pass returns {action: 'update', count: n}, it has
\* recomputed and written n analytics, all of them due when it scanned.
C28_UpdateCountIsWritten ==
  [][\A p \in Procs :
       (call[p].pc = "sm_refresh" /\ call'[p].pc = "idle"
          /\ obs'[p].result.action = "update")
         => /\ obs'[p].result.count = Cardinality(obs[p].written)
            /\ obs[p].written \subseteq obs[p].dueAtScan]_vars

\* C29: every forced quality check (the route calls runFullCalculationWithClient
\* with the caller's client and answers 'Full data quality check started',
\* status 'running', whatever the call does) runs a full pass: the request is
\* never the one that returns early because another pass is in flight.
C29_ForcedCheckRunsPass ==
  \A p \in Procs : obs[p].kind = "fullWithClient" => obs[p].outcome # "rejected"

\* C30: once getMatrix has returned the empty taxonomy because the source was
\* unavailable, every getMatrix call that starts before the next clearCache
\* returns the empty taxonomy from the cache, without reading the source, also
\* when the source has become available in between.
C30_FallbackIsMemoized ==
  [][\A m, n \in MatrixCallers :
       (FallbackReturned(m) /\ mcall[n].pc = "idle" /\ mcall'[n] # mcall[n])
         => /\ mcall'[n].pc = "idle"
            /\ mcall'[n].last.outcome = "returned"
            /\ ~mcall'[n].last.parsed
            /\ mcall'[n].last.matrix.tactics = EmptyTaxonomy.tactics
            /\ mcall'[n].last.matrix.availablePlatforms = <<>>]_vars

====
